---- MODULE Spec2Model ----
(***************************************************************************)
(* Weather scan pipeline of the polymarket bot: WeatherScanner             *)
(* (src/src/weather/scanner.ts) on top of NWSClient (src/src/index.ts).    *)
(*                                                                         *)
(* Conventions                                                             *)
(*   - text is a tuple of one-character strings, so that includes() and    *)
(*     toLowerCase() are computed, not assumed;                            *)
(*   - a JavaScript value of a loosely typed field is a tagged record      *)
(*     [t |-> tag, ...], so that || and truthiness are computed;           *)
(*   - an instant is a whole number of minutes since the epoch, its ISO   *)
(*     date (toISOString().split('T')[0]) is its UTC day number;           *)
(*   - a price or probability is a whole number of percent.                *)
(***************************************************************************)
EXTENDS Integers, Sequences, FiniteSets, TLC

(***************************************************************************)
(* Bounds                                                                  *)
(***************************************************************************)
\* number of scan() invocations on the one scanner
MaxScans == 2

(***************************************************************************)
(* JavaScript values                                                       *)
(***************************************************************************)
Undef == [t |-> "undefined"]
NaNv == [t |-> "nan"]
Text(s) == [t |-> "text", v |-> s]
Str(s) == [t |-> "string", v |-> s]
Num(n) == [t |-> "number", v |-> n]
\* an ISO timestamp string that Date parses to the instant h
Stamp(h) == [t |-> "timestamp", v |-> h]
Arr(s) == [t |-> "array", v |-> s]

Truthy(x) ==
    CASE x.t = "undefined" -> FALSE
      [] x.t = "nan" -> FALSE
      [] x.t = "text" -> x.v # <<>>
      [] x.t = "string" -> x.v # ""
      [] x.t = "number" -> x.v # 0
      [] OTHER -> TRUE

\* a || b
Or(a, b) == IF Truthy(a) THEN a ELSE b

\* property read: a missing property is undefined
Get(r, f) == IF f \in DOMAIN r THEN r[f] ELSE Undef

\* const x = v, then the statements that follow it
Let(v, rest(_)) == rest(v)

(***************************************************************************)
(* Text                                                                    *)
(***************************************************************************)
Upper == <<"A", "B", "C", "D", "E", "F", "G", "H", "I", "J", "K", "L", "M",
           "N", "O", "P", "Q", "R", "S", "T", "U", "V", "W", "X", "Y", "Z">>
Lower == <<"a", "b", "c", "d", "e", "f", "g", "h", "i", "j", "k", "l", "m",
           "n", "o", "p", "q", "r", "s", "t", "u", "v", "w", "x", "y", "z">>

UpperToLower == [c \in {Upper[i] : i \in 1..26} |-> Lower[CHOOSE i \in 1..26 : Upper[i] = c]]

LowerChar(c) == IF c \in DOMAIN UpperToLower THEN UpperToLower[c] ELSE c

\* String.prototype.toLowerCase
toLowerCase(s) == [i \in 1..Len(s) |-> LowerChar(s[i])]

\* String.prototype.includes
includes(s, sub) ==
    \E i \in 0..(Len(s) - Len(sub)) : SubSeq(s, i + 1, i + Len(sub)) = sub

(***************************************************************************)
(* Tables                                                                  *)
(***************************************************************************)
TEMP_KEYWORDS ==
    << <<"t", "e", "m", "p", "e", "r", "a", "t", "u", "r", "e">>,
       <<"h", "i", "g", "h", " ", "t", "e", "m", "p", "e", "r", "a", "t", "u", "r", "e">>,
       <<"d", "a", "i", "l", "y", " ", "h", "i", "g", "h">>,
       <<"d", "e", "g", "r", "e", "e", "s">>,
       <<"°", "F">>,
       <<"°", "f">> >>

\* Object.entries order of the table is its textual order
CITY_VARIATIONS ==
    << [code |-> "NYC", variations |->
          << <<"n", "e", "w", " ", "y", "o", "r", "k">>,
             <<"n", "y", "c">>,
             <<"m", "a", "n", "h", "a", "t", "t", "a", "n">>,
             <<"c", "e", "n", "t", "r", "a", "l", " ", "p", "a", "r", "k">> >>],
       [code |-> "LA", variations |->
          << <<"l", "o", "s", " ", "a", "n", "g", "e", "l", "e", "s">>,
             <<"l", "a">>,
             <<"l", "a", "x">> >>],
       [code |-> "Chicago", variations |->
          << <<"c", "h", "i", "c", "a", "g", "o">>,
             <<"o", "r", "d">> >>],
       [code |-> "Miami", variations |->
          << <<"m", "i", "a", "m", "i">>,
             <<"m", "i", "a">> >>],
       [code |-> "Dallas", variations |->
          << <<"d", "a", "l", "l", "a", "s">>,
             <<"d", "f", "w">>,
             <<"f", "o", "r", "t", " ", "w", "o", "r", "t", "h">> >>],
       [code |-> "Seattle", variations |->
          << <<"s", "e", "a", "t", "t", "l", "e">>,
             <<"s", "e", "a">> >>] >>

\* the tracked-city table; a coordinate pair is kept as the pair of its
\* values in ten-thousandths of a degree
CITIES ==
    [NYC     |-> [name |-> "New York City", lat |-> 407128, lon |-> -740060],
     LA      |-> [name |-> "Los Angeles",   lat |-> 340522, lon |-> -1182437],
     Chicago |-> [name |-> "Chicago",       lat |-> 418781, lon |-> -876298],
     Miami   |-> [name |-> "Miami",         lat |-> 257617, lon |-> -801918],
     Dallas  |-> [name |-> "Dallas",        lat |-> 327767, lon |-> -967970],
     Seattle |-> [name |-> "Seattle",       lat |-> 476062, lon |-> -1223321]]

CityCodes == DOMAIN CITIES

(***************************************************************************)
(* Calendar and clock                                                      *)
(***************************************************************************)
MinutesPerDay == 24 * 60

\* day number (days since 1970-01-01) of a proleptic Gregorian date
DaysFromCivil(y, m, d) ==
    LET yy  == IF m <= 2 THEN y - 1 ELSE y
        era == yy \div 400
        yoe == yy - era * 400
        mp  == IF m > 2 THEN m - 3 ELSE m + 9
        doy == (153 * mp + 2) \div 5 + d - 1
        doe == yoe * 365 + yoe \div 4 - yoe \div 100 + doy
    IN  era * 146097 + doe - 719468

\* Date.prototype.toISOString().split('T')[0]: the UTC day of an instant
\* (instants are minutes since the epoch, \div rounds down)
ISODate(instant) == instant \div MinutesPerDay

\* the instant of local midnight of a day, for a local offset of tzv minutes
\* east of UTC
LocalMidnight(day, tzv) == day * MinutesPerDay - tzv

\* the local calendar day of an instant
LocalDay(instant, tzv) == (instant + tzv) \div MinutesPerDay

InvalidDate == [t |-> "invalid"]
DateAt(instant) == [t |-> "date", v |-> instant]

(***************************************************************************)
(* Date patterns of extractTargetDate                                      *)
(***************************************************************************)
Digits == <<"0", "1", "2", "3", "4", "5", "6", "7", "8", "9">>
IsDigit(c) == \E i \in 1..10 : Digits[i] = c
DigitVal(c) == (CHOOSE i \in 1..10 : Digits[i] = c) - 1
IsSpace(c) == c \in {" ", "\t", "\n"}

RECURSIVE NumVal(_)
\* value of a run of decimal digits
NumVal(s) ==
    IF s = <<>> THEN 0
    ELSE 10 * NumVal(SubSeq(s, 1, Len(s) - 1)) + DigitVal(s[Len(s)])

At(s, i) == IF i >= 1 /\ i <= Len(s) THEN s[i] ELSE ""
DigitAt(s, i) == i >= 1 /\ i <= Len(s) /\ IsDigit(s[i])

RECURSIVE DigitRun(_, _, _)
\* length of the longest run of at most max digits starting at i
DigitRun(s, i, max) ==
    IF max = 0 \/ ~DigitAt(s, i) THEN 0 ELSE 1 + DigitRun(s, i + 1, max - 1)

RECURSIVE SpaceRun(_, _)
SpaceRun(s, i) == IF i <= Len(s) /\ IsSpace(s[i]) THEN 1 + SpaceRun(s, i + 1) ELSE 0

StartsWithAt(s, i, w) == i + Len(w) - 1 <= Len(s) /\ SubSeq(s, i, i + Len(w) - 1) = w

NoMatch == [t |-> "nomatch"]
Match(kind, txt) == [t |-> "match", kind |-> kind, text |-> txt]

\* the leftmost position satisfying P, 0 when there is none
Leftmost(s, P(_)) ==
    IF \E i \in 1..Len(s) : P(i)
    THEN CHOOSE i \in 1..Len(s) : P(i) /\ \A j \in 1..(i - 1) : ~P(j)
    ELSE 0

\* /(\d{4}-\d{2}-\d{2})/ anchored at i
IsoAt(s, i) ==
    /\ i + 9 <= Len(s)
    /\ \A k \in {0, 1, 2, 3, 5, 6, 8, 9} : IsDigit(s[i + k])
    /\ s[i + 4] = "-" /\ s[i + 7] = "-"

\* /(\d{1,2}\/\d{1,2}\/?\d{0,4})/ anchored at i: length of the first digit
\* group, 0 when the pattern does not match at i
SlashFirstLen(s, i) ==
    IF DigitAt(s, i) /\ DigitAt(s, i + 1) /\ At(s, i + 2) = "/" /\ DigitAt(s, i + 3)
    THEN 2
    ELSE IF DigitAt(s, i) /\ At(s, i + 1) = "/" /\ DigitAt(s, i + 2)
    THEN 1
    ELSE 0

SlashMatchLen(s, i) ==
    LET a  == SlashFirstLen(s, i)
        b  == DigitRun(s, i + a + 1, 2)
        p  == i + a + 1 + b
        sl == IF At(s, p) = "/" THEN 1 ELSE 0
        c  == DigitRun(s, p + sl, 4)
    IN  a + 1 + b + sl + c

MonthNames ==
    << <<"j", "a", "n", "u", "a", "r", "y">>,
       <<"f", "e", "b", "r", "u", "a", "r", "y">>,
       <<"m", "a", "r", "c", "h">>,
       <<"a", "p", "r", "i", "l">>,
       <<"m", "a", "y">>,
       <<"j", "u", "n", "e">>,
       <<"j", "u", "l", "y">>,
       <<"a", "u", "g", "u", "s", "t">>,
       <<"s", "e", "p", "t", "e", "m", "b", "e", "r">>,
       <<"o", "c", "t", "o", "b", "e", "r">>,
       <<"n", "o", "v", "e", "m", "b", "e", "r">>,
       <<"d", "e", "c", "e", "m", "b", "e", "r">> >>

MonthAbbrevs == [i \in 1..12 |-> SubSeq(MonthNames[i], 1, 3)]

\* the first alternative, in the order of the alternation, that matches at i
\* together with what must follow it; 0 when none does
NameAltAt(s, i, names, dot) ==
    LET ok(k) ==
          /\ StartsWithAt(s, i, names[k])
          /\ LET p == i + Len(names[k])
                 q == IF dot /\ At(s, p) = "." THEN p + 1 ELSE p
             IN  SpaceRun(s, q) >= 1 /\ DigitAt(s, q + SpaceRun(s, q))
    IN  IF \E k \in 1..12 : ok(k)
        THEN CHOOSE k \in 1..12 : ok(k) /\ \A j \in 1..(k - 1) : ~ok(j)
        ELSE 0

NameMatchLen(s, i, names, dot) ==
    LET k  == NameAltAt(s, i, names, dot)
        p  == i + Len(names[k])
        q  == IF dot /\ At(s, p) = "." THEN p + 1 ELSE p
        sp == SpaceRun(s, q)
    IN  (q - i) + sp + DigitRun(s, q + sp, 2)

\* String.prototype.match for the four patterns, in the order of datePatterns
MatchPattern(s, n) ==
    CASE n = 1 ->
           LET i == Leftmost(s, LAMBDA j : IsoAt(s, j))
           IN  IF i = 0 THEN NoMatch ELSE Match("iso", SubSeq(s, i, i + 9))
      [] n = 2 ->
           LET i == Leftmost(s, LAMBDA j : SlashFirstLen(s, j) > 0)
           IN  IF i = 0 THEN NoMatch
               ELSE Match("slash", SubSeq(s, i, i + SlashMatchLen(s, i) - 1))
      [] n = 3 ->
           LET i == Leftmost(s, LAMBDA j : NameAltAt(s, j, MonthNames, FALSE) > 0)
           IN  IF i = 0 THEN NoMatch
               ELSE Match("month", SubSeq(s, i, i + NameMatchLen(s, i, MonthNames, FALSE) - 1))
      [] n = 4 ->
           LET i == Leftmost(s, LAMBDA j : NameAltAt(s, j, MonthAbbrevs, TRUE) > 0)
           IN  IF i = 0 THEN NoMatch
               ELSE Match("abbrev", SubSeq(s, i, i + NameMatchLen(s, i, MonthAbbrevs, TRUE) - 1))

\* new Date(text) for a text matched by one of the patterns.  The ISO form
\* is UTC midnight; the other forms are read by the engine's fallback parser
\* as local midnight, the year defaulting to 2001.
DateParse(m, tzv) ==
    LET s == m.text IN
    CASE m.kind = "iso" ->
           LET y  == NumVal(SubSeq(s, 1, 4))
               mo == NumVal(SubSeq(s, 6, 7))
               d  == NumVal(SubSeq(s, 9, 10))
           IN  IF mo \in 1..12 /\ d \in 1..31
               THEN DateAt((DaysFromCivil(y, mo, 1) + d - 1) * MinutesPerDay)
               ELSE InvalidDate
      [] m.kind = "slash" ->
           LET a   == DigitRun(s, 1, 2)
               b   == DigitRun(s, a + 2, 2)
               p   == a + 2 + b
               sl  == IF At(s, p) = "/" THEN 1 ELSE 0
               c   == Len(s) - (p + sl) + 1
               mo  == NumVal(SubSeq(s, 1, a))
               d   == NumVal(SubSeq(s, a + 2, a + 1 + b))
               yy  == NumVal(SubSeq(s, p + sl, Len(s)))
               y   == IF c = 0 THEN 2001
                      ELSE IF c <= 2 THEN (IF yy < 50 THEN 2000 + yy ELSE 1900 + yy)
                      ELSE yy
           IN  IF mo \in 1..12 /\ d \in 1..31
               THEN DateAt(LocalMidnight(DaysFromCivil(y, mo, 1) + d - 1, tzv))
               ELSE InvalidDate
      [] m.kind \in {"month", "abbrev"} ->
           LET mo == CHOOSE k \in 1..12 : StartsWithAt(s, 1, MonthAbbrevs[k])
               n  == DigitRun(s, Len(s), 1) + DigitRun(s, Len(s) - 1, 2) \div 2
               d  == NumVal(SubSeq(s, Len(s) - n + 1, Len(s)))
           IN  IF d \in 1..31
               THEN DateAt(LocalMidnight(DaysFromCivil(2001, mo, 1) + d - 1, tzv))
               ELSE InvalidDate

(***************************************************************************)
(* Market normalization                                                    *)
(***************************************************************************)
Throw == [t |-> "throw"]
Null == [t |-> "null"]
Ok(v) == [t |-> "ok", v |-> v]

\* a temperature range; a bound that is not set leaves that side open
Bucket(hasLo, lo, hasHi, hi) == [hasLo |-> hasLo, lo |-> lo, hasHi |-> hasHi, hi |-> hi]

BucketLabels ==
    ("73-77°F" :> Bucket(TRUE, 73, TRUE, 77)) @@
    ("70-72°F" :> Bucket(TRUE, 70, TRUE, 72)) @@
    ("Below 73°F" :> Bucket(FALSE, 0, TRUE, 73)) @@
    ("95°F or above" :> Bucket(TRUE, 95, FALSE, 0))

\* the bucket-label parser of the edge detector: a label that is not the
\* text of a temperature range gives null
parseTempBucket(label) ==
    IF label.t = "string" /\ label.v \in DOMAIN BucketLabels
    THEN Ok(BucketLabels[label.v])
    ELSE Null

NumericStrings == ("0.5" :> 50) @@ ("0.3" :> 30) @@ ("1.5" :> 150)

\* parseFloat on a number or on a string
parseFloat(x) ==
    CASE x.t = "number" -> x
      [] x.t = "string" /\ x.v \in DOMAIN NumericStrings -> Num(NumericStrings[x.v])
      [] OTHER -> NaNv

\* the values a for...of loop visits, Throw for a value that is not iterable
Iterate(x) ==
    CASE x.t = "array" -> Ok(x.v)
      [] x.t = "text" -> Ok([i \in 1..Len(x.v) |-> Str(x.v[i])])
      [] OTHER -> Throw

RECURSIVE parseOutcomesFrom(_, _)
\* the loop of parseOutcomes over the remaining raw outcomes, acc the
\* outcomes pushed so far
parseOutcomesFrom(list, acc) ==
    IF list = <<>> THEN Ok(acc)
    ELSE LET outcome == Head(list) IN
         IF outcome.t \in {"null", "undefined"} THEN Throw
         ELSE LET label  == Or(Or(Or(Get(outcome, "outcome"), Get(outcome, "name")),
                                  Get(outcome, "title")), Str(""))
                  bucket == parseTempBucket(label)
              IN  IF bucket.t = "ok"
                  THEN parseOutcomesFrom(Tail(list), Append(acc,
                         [tokenId |-> Or(Or(Get(outcome, "tokenId"), Get(outcome, "token_id")),
                                         Get(outcome, "id")),
                          bucket  |-> bucket.v,
                          price   |-> parseFloat(Or(Or(Get(outcome, "price"),
                                                       Get(outcome, "lastTradePrice")),
                                                    Str("0.5")))]))
                  ELSE parseOutcomesFrom(Tail(list), acc)

parseOutcomes(market) ==
    LET outcomesList == Or(Or(Get(market, "outcomes"), Get(market, "tokens")), Arr(<<>>))
        it == Iterate(outcomesList)
    IN  IF it.t = "throw" THEN Throw ELSE parseOutcomesFrom(it.v, <<>>)

\* new Date(x) for the value of an end-date field
NewDate(x) ==
    CASE x.t = "timestamp" -> DateAt(x.v)
      [] x.t = "number" -> DateAt(x.v)
      [] OTHER -> InvalidDate

RECURSIVE firstPatternDate(_, _, _)
\* the loop over datePatterns from pattern n on: the ISO date of the first
\* pattern that matches and parses, Null when no pattern does
firstPatternDate(question, n, tzv) ==
    IF n > 4 THEN Null
    ELSE Let(MatchPattern(question, n), LAMBDA m :
         IF m.t = "match"
         THEN Let(DateParse(m, tzv), LAMBDA parsed :
              IF parsed.t = "date" THEN Ok(ISODate(parsed.v))
              ELSE firstPatternDate(question, n + 1, tzv))
         ELSE firstPatternDate(question, n + 1, tzv))

extractTargetDate(question, market, nowv, tzv) ==
    IF Truthy(Get(market, "endDate"))
    THEN Let(NewDate(Get(market, "endDate")), LAMBDA d :
         IF d.t = "invalid" THEN Throw ELSE Ok(ISODate(d.v)))
    ELSE Let(firstPatternDate(question, 1, tzv), LAMBDA fromQuestion :
         IF fromQuestion.t = "ok" THEN fromQuestion
         ELSE Ok(ISODate(nowv + MinutesPerDay)))

\* the code of the first city, in table order, one of whose variations the
\* question includes; "" when there is none
matchCity(question) ==
    LET hit(k) == \E j \in 1..Len(CITY_VARIATIONS[k].variations) :
                      includes(question, CITY_VARIATIONS[k].variations[j])
    IN  IF \E k \in 1..Len(CITY_VARIATIONS) : hit(k)
        THEN CITY_VARIATIONS[CHOOSE k \in 1..Len(CITY_VARIATIONS) :
                                 hit(k) /\ \A j \in 1..(k - 1) : ~hit(j)].code
        ELSE ""

isTempQuestion(question) ==
    \E k \in 1..Len(TEMP_KEYWORDS) : includes(question, toLowerCase(TEMP_KEYWORDS[k]))

\* Ok(market), Null, or Throw when the record makes the parser raise
parseWeatherMarket(market, nowv, tzv) ==
    IF market.t \in {"null", "undefined"} THEN Throw
    ELSE Let(Or(Or(Get(market, "question"), Get(market, "title")), Text(<<>>)), LAMBDA rawQuestion :
    IF rawQuestion.t # "text" THEN Throw
    ELSE Let(toLowerCase(rawQuestion.v), LAMBDA question :
    IF ~isTempQuestion(question) THEN Null
    ELSE Let(matchCity(question), LAMBDA cityCode :
    IF cityCode = "" THEN Null
    ELSE Let(extractTargetDate(question, market, nowv, tzv), LAMBDA targetDate :
    IF targetDate.t = "throw" THEN Throw
    ELSE Let(parseOutcomes(market), LAMBDA outcomes :
    IF outcomes.t = "throw" THEN Throw
    ELSE IF Len(outcomes.v) = 0 THEN Null
    ELSE Ok([marketId    |-> Or(Get(market, "id"), Get(market, "conditionId")),
             conditionId |-> Get(market, "conditionId"),
             city        |-> CITIES[cityCode].name,
             cityCode    |-> cityCode,
             targetDate  |-> targetDate.v,
             outcomes    |-> outcomes.v,
             question    |-> Or(Get(market, "question"), Get(market, "title"))]))))))

(***************************************************************************)
(* Forecast acquisition (NWSClient)                                        *)
(***************************************************************************)
\* the cache key `${lat},${lon}` of a city
cacheKey(cityCode) == <<CITIES[cityCode].lat, CITIES[cityCode].lon>>

\* mutant: the first temperature is taken for the highest
SeqMax_First(s) == s[1]

SeqMax(s) == CHOOSE x \in {s[i] : i \in 1..Len(s)} : \A j \in 1..Len(s) : s[j] <= x
SeqMin(s) == CHOOSE x \in {s[i] : i \in 1..Len(s)} : \A j \in 1..Len(s) : s[j] >= x

\* the lead time in minutes, clamped at zero
leadMinutes(targetDate, nowv) == IF targetDate - nowv > 0 THEN targetDate - nowv ELSE 0

\* mutant: the tier bounds are exclusive
confidenceOf_Exclusive(lead) ==
    IF lead < 24 * 60 THEN "very_high"
    ELSE IF lead < 48 * 60 THEN "high"
    ELSE IF lead < 72 * 60 THEN "medium"
    ELSE "low"

\* the confidence tier of a lead time given in minutes
confidenceOf(lead) ==
    IF lead <= 24 * 60 THEN "very_high"
    ELSE IF lead <= 48 * 60 THEN "high"
    ELSE IF lead <= 72 * 60 THEN "medium"
    ELSE "low"

\* Math.round of a non-negative number of minutes expressed in hours
roundHours(lead) == (lead + 30) \div 60

\* mutant: without a period on the target date the forecast is made from
\* all the periods
dailyHigh_AnyDay(hourlyForecasts, targetDate, nowv) ==
    IF Len(hourlyForecasts) = 0 THEN Null
    ELSE LET onDay == SelectSeq(hourlyForecasts,
                                LAMBDA f : ISODate(f.startTime) = ISODate(targetDate))
             dayForecasts == IF Len(onDay) = 0 THEN hourlyForecasts ELSE onDay
             temps == [i \in 1..Len(dayForecasts) |-> dayForecasts[i].temperature]
         IN  Ok([date          |-> ISODate(targetDate),
                 highTemp      |-> SeqMax(temps),
                 lowTemp       |-> SeqMin(temps),
                 confidence    |-> confidenceOf(leadMinutes(targetDate, nowv)),
                 hoursUntil    |-> roundHours(leadMinutes(targetDate, nowv)),
                 shortForecast |-> dayForecasts[1].shortForecast])

\* the part of getDailyHigh after the hourly forecasts have arrived
dailyHigh(hourlyForecasts, targetDate, nowv) ==
    LET targetDateStr == ISODate(targetDate)
        dayForecasts  == SelectSeq(hourlyForecasts,
                                    LAMBDA f : ISODate(f.startTime) = targetDateStr)
    IN  IF Len(dayForecasts) = 0 THEN Null
        ELSE LET temps == [i \in 1..Len(dayForecasts) |-> dayForecasts[i].temperature]
                 lead  == leadMinutes(targetDate, nowv)
                 daytimeForecasts == SelectSeq(dayForecasts, LAMBDA f : f.isDaytime)
             IN  Ok([date          |-> targetDateStr,
                     highTemp      |-> SeqMax(temps),
                     lowTemp       |-> SeqMin(temps),
                     confidence    |-> confidenceOf(lead),
                     hoursUntil    |-> roundHours(lead),
                     shortForecast |-> IF Len(daytimeForecasts) > 0
                                       THEN daytimeForecasts[1].shortForecast
                                       ELSE dayForecasts[1].shortForecast])

(***************************************************************************)
(* Edge detector                                                           *)
(***************************************************************************)
MIN_EDGE_THRESHOLD == 5

\* twice the standard deviation assumed for a confidence tier
twiceStdDev(confidence) ==
    CASE confidence = "very_high" -> 3
      [] confidence = "high" -> 4
      [] confidence = "medium" -> 6
      [] confidence = "low" -> 9

\* the standard normal distribution function in percent, tabulated at the
\* half-integers from -3 to 3
PhiTable == <<0, 1, 2, 7, 16, 31, 50, 69, 84, 93, 98, 99, 100>>

\* Phi(num / den) for den > 0, the argument rounded down to a half-integer
PhiPct(num, den) ==
    LET h == (2 * num) \div den
        c == IF h < -6 THEN -6 ELSE IF h > 6 THEN 6 ELSE h
    IN  PhiTable[c + 7]

fairProbability(bucket, forecast) ==
    LET s2 == twiceStdDev(forecast.confidence)
        hi == IF bucket.hasHi THEN PhiPct(2 * (bucket.hi - forecast.highTemp), s2) ELSE 100
        lo == IF bucket.hasLo THEN PhiPct(2 * (bucket.lo - forecast.highTemp), s2) ELSE 0
    IN  hi - lo

RECURSIVE detectFrom(_, _, _)
\* mutant: an edge equal to the threshold is not emitted
detectFrom_Strict(market, forecast, i) ==
    IF i > Len(market.outcomes) THEN <<>>
    ELSE LET o    == market.outcomes[i]
             fair == fairProbability(o.bucket, forecast)
         IN  IF o.price.t = "number" /\ fair - o.price.v > MIN_EDGE_THRESHOLD
             THEN <<[marketId        |-> market.marketId,
                     cityCode        |-> market.cityCode,
                     targetDate      |-> market.targetDate,
                     tokenId         |-> o.tokenId,
                     side            |-> "yes",
                     marketPrice     |-> o.price.v,
                     fairProbability |-> fair,
                     edge            |-> fair - o.price.v]>>
                  \o detectFrom(market, forecast, i + 1)
             ELSE detectFrom(market, forecast, i + 1)

\* the opportunities of the outcomes from index i on, in bucket order
detectFrom(market, forecast, i) ==
    IF i > Len(market.outcomes) THEN <<>>
    ELSE LET o    == market.outcomes[i]
             fair == fairProbability(o.bucket, forecast)
         IN  IF o.price.t = "number" /\ fair - o.price.v >= MIN_EDGE_THRESHOLD
             THEN <<[marketId        |-> market.marketId,
                     cityCode        |-> market.cityCode,
                     targetDate      |-> market.targetDate,
                     tokenId         |-> o.tokenId,
                     side            |-> "yes",
                     marketPrice     |-> o.price.v,
                     fairProbability |-> fair,
                     edge            |-> fair - o.price.v]>>
                  \o detectFrom(market, forecast, i + 1)
             ELSE detectFrom(market, forecast, i + 1)

detectOpportunities(market, forecast) == detectFrom(market, forecast, 1)

(***************************************************************************)
(* The environment: what the providers may answer                          *)
(***************************************************************************)
Obj(fields) == ("t" :> "object") @@ fields

Day0 == DaysFromCivil(2025, 12, 24)

\* noon UTC of 2025-12-24
Now0 == Day0 * MinutesPerDay + 720

\* local offsets of the process, in minutes east of UTC
TzOffsets == {-300, 120}

\* the dates a caller passes to scan()
ExplicitDates == {(Day0 + 2) * MinutesPerDay}

\* a New York market with an end date, two usable outcomes
RawNYC ==
    Obj([id |-> Str("m1"), conditionId |-> Str("c1"),
         question |-> Text(<<"N", "Y", "C", " ", "°", "F">>),
         endDate |-> Stamp((Day0 + 1) * MinutesPerDay + 720),
         outcomes |-> Arr(<< Obj([outcome |-> Str("73-77°F"), tokenId |-> Str("t1"),
                                  price |-> Num(55)]),
                             Obj([name |-> Str("Below 73°F"), token_id |-> Str("t2")]) >>)])

\* a Los Angeles market without end date, one usable outcome of two
RawLA ==
    Obj([conditionId |-> Str("c2"),
         title |-> Text(<<"L", "A", " ", "d", "e", "g", "r", "e", "e", "s">>),
         tokens |-> Arr(<< Obj([outcome |-> Str("70-72°F"), id |-> Str("t3"),
                                lastTradePrice |-> Str("0.3")]),
                           Obj([outcome |-> Str("Yes"), id |-> Str("t4")]) >>)])

\* not a temperature market
RawOther == Obj([id |-> Str("m3"), question |-> Text(<<"r", "a", "i", "n">>)])

\* a New York market whose end date does not parse
RawBadDate ==
    Obj([id |-> Str("m4"), question |-> Text(<<"N", "Y", "C", " ", "°", "F">>), endDate |-> Str("TBD"),
         outcomes |-> Arr(<< Obj([outcome |-> Str("73-77°F"), tokenId |-> Str("t5")]) >>)])

Response(ok, body) == [t |-> "response", ok |-> ok, body |-> body]
NotOk == [t |-> "response", ok |-> FALSE]
BadJson == [t |-> "badjson"]

PrimaryResponses ==
    {Throw, NotOk, Response(TRUE, BadJson)} \cup
    {Response(TRUE, Arr(b)) : b \in {<<>>, <<RawOther>>, <<RawNYC>>, <<RawLA, RawNYC>>,
                                     <<RawNYC, RawNYC>>, <<RawNYC, RawBadDate>>}}

FallbackResponses ==
    {Throw, NotOk} \cup
    {Response(TRUE, Arr(b)) : b \in {<<RawNYC>>, <<RawLA, RawBadDate>>}}

GridProps(cityCode) ==
    Obj([gridId |-> Str("OFF"), gridX |-> Num(1), gridY |-> Num(2),
         forecast |-> Str("forecast/" \o cityCode),
         forecastHourly |-> Str("hourly/" \o cityCode)])

GridResponses(cityCode) ==
    {NotOk,
     Response(TRUE, Obj([properties |-> GridProps(cityCode)])),
     Response(TRUE, Obj([properties |-> Obj([gridId |-> Str("OFF")])]))}

Period(start, temp, day, txt) ==
    [startTime |-> start, temperature |-> temp, isDaytime |-> day, shortForecast |-> txt]

HourlyBodies ==
    { << Period(Day0 * MinutesPerDay + 1380, 70, FALSE, "Clear"),
         Period((Day0 + 1) * MinutesPerDay + 300, 74, FALSE, "Cloudy"),
         Period((Day0 + 1) * MinutesPerDay + 900, 76, TRUE, "Sunny"),
         Period((Day0 + 2) * MinutesPerDay + 900, 60, TRUE, "Rain") >>,
      << Period((Day0 + 3) * MinutesPerDay, 65, FALSE, "Fog") >> }

HourlyResponses ==
    {NotOk} \cup {Response(TRUE, Obj([properties |-> Obj([periods |-> Arr(b)])])) : b \in HourlyBodies}

\* getPrice: a number of percent, or a failure
PriceResponses == {Throw, Num(0), Num(40)}

(***************************************************************************)
(* Discovery: the synchronous parts of findTemperatureMarkets and          *)
(* searchBroadly                                                           *)
(***************************************************************************)
KEYWORDS == <<"temperature", "high", "weather">>

RECURSIVE parseAll(_, _, _, _)
\* the loop of findTemperatureMarkets over the records of a response
parseAll(data, acc, nowv, tzv) ==
    IF data = <<>> THEN Ok(acc)
    ELSE Let(parseWeatherMarket(Head(data), nowv, tzv), LAMBDA weatherMarket :
         IF weatherMarket.t = "throw" THEN Throw
         ELSE IF weatherMarket.t = "ok"
         THEN parseAll(Tail(data), Append(acc, weatherMarket.v), nowv, tzv)
         ELSE parseAll(Tail(data), acc, nowv, tzv))

RECURSIVE mergeAll(_, _, _, _)
\* the loop of searchBroadly over the records of a response: a market whose
\* marketId is already in the list is not pushed again
mergeAll(data, acc, nowv, tzv) ==
    IF data = <<>> THEN Ok(acc)
    ELSE Let(parseWeatherMarket(Head(data), nowv, tzv), LAMBDA weatherMarket :
         IF weatherMarket.t = "throw" THEN Throw
         ELSE IF /\ weatherMarket.t = "ok"
                 /\ ~\E i \in 1..Len(acc) : acc[i].marketId = weatherMarket.v.marketId
         THEN mergeAll(Tail(data), Append(acc, weatherMarket.v), nowv, tzv)
         ELSE mergeAll(Tail(data), acc, nowv, tzv))

\* what the try block of findTemperatureMarkets makes of the primary
\* response: Ok(markets), or Fallback when it goes on to searchBroadly
Fallback == [t |-> "fallback"]

primaryOutcome(r, nowv, tzv) ==
    IF r.t = "throw" THEN Fallback
    ELSE IF ~r.ok THEN Fallback
    ELSE Let(Iterate(r.body), LAMBDA data :
         IF data.t = "throw" THEN Fallback
         ELSE Let(parseAll(data.v, <<>>, nowv, tzv), LAMBDA parsed :
              IF parsed.t = "throw" THEN Fallback ELSE parsed))

\* what one iteration of the keyword loop of searchBroadly makes of a
\* response, markets the list so far: Ok(markets), or Throw when the catch
\* block is entered
keywordOutcome(r, markets, nowv, tzv) ==
    IF r.t = "throw" THEN Throw
    ELSE IF ~r.ok THEN Ok(markets)
    ELSE Let(Iterate(r.body), LAMBDA data :
         IF data.t = "throw" THEN Throw
         ELSE mergeAll(data.v, markets, nowv, tzv))

(***************************************************************************)
(* The synchronous parts of scan                                           *)
(***************************************************************************)
RECURSIVE distinctFrom(_, _)
distinctFrom(s, acc) ==
    IF s = <<>> THEN acc
    ELSE IF \E i \in 1..Len(acc) : acc[i] = Head(s)
    THEN distinctFrom(Tail(s), acc)
    ELSE distinctFrom(Tail(s), Append(acc, Head(s)))

\* mutant: the city codes are not made distinct
cityCodesOf_NotDistinct(markets) == [i \in 1..Len(markets) |-> markets[i].cityCode]

\* [...new Set(markets.map(m => m.cityCode))]
cityCodesOf(markets) == distinctFrom([i \in 1..Len(markets) |-> markets[i].cityCode], <<>>)

\* mutant: a market without forecast is not skipped
nextMarketWithForecast_NoSkip(markets, forecasts, i) == i

\* the index of the first market from index i on whose city has a forecast,
\* Len(markets) + 1 when there is none
RECURSIVE nextMarketWithForecast(_, _, _)
nextMarketWithForecast(markets, forecasts, i) ==
    IF i > Len(markets) THEN i
    ELSE IF markets[i].cityCode \in DOMAIN forecasts THEN i
    ELSE nextMarketWithForecast(markets, forecasts, i + 1)

RECURSIVE insertByEdge(_, _)
\* insert an opportunity behind every one whose edge is at least its own
insertByEdge(sorted, o) ==
    IF sorted = <<>> THEN <<o>>
    ELSE IF Head(sorted).edge >= o.edge THEN <<Head(sorted)>> \o insertByEdge(Tail(sorted), o)
    ELSE <<o>> \o sorted

\* mutant: the opportunities are left in detection order
sortByEdge_Unsorted(opps) == opps

RECURSIVE sortByEdge(_)
\* opportunities.sort((a, b) => b.edge - a.edge), a stable sort
sortByEdge(opps) ==
    IF opps = <<>> THEN <<>>
    ELSE insertByEdge(sortByEdge(SubSeq(opps, 1, Len(opps) - 1)), opps[Len(opps)])

\* mutant: a failed price request wipes the price
applyPrice_DropsOnFailure(outcome, r) ==
    [outcome EXCEPT !.price = IF r.t = "number" /\ r.v > 0 THEN r ELSE NaNv]

\* the body of the loop of updateMarketPrices for one outcome
applyPrice(outcome, r) ==
    IF r.t = "number" /\ r.v > 0 THEN [outcome EXCEPT !.price = r] ELSE outcome

\* getTomorrowDate: local midnight of the day after the local day of now
getTomorrowDate(nowv, tzv) == LocalMidnight(LocalDay(nowv, tzv) + 1, tzv)

NoQuick == [t |-> "none"]

\* what quickScan makes of the result of its scan
quickOf(res) ==
    [t |-> "quick",
     hasOpportunities |-> Len(res.opportunities) > 0,
     count |-> Len(res.opportunities),
     topOpportunity |-> IF Len(res.opportunities) > 0 THEN Ok(res.opportunities[1]) ELSE Null]

\* the grid point built from the properties of a grid response
gridPointOf(props) ==
    [office |-> Get(props, "gridId"), gridX |-> Get(props, "gridX"),
     gridY |-> Get(props, "gridY"), forecastUrl |-> Get(props, "forecast"),
     forecastHourlyUrl |-> Get(props, "forecastHourly")]

NoGridPoint == [t |-> "none"]

(***************************************************************************)
(* State                                                                   *)
(***************************************************************************)
VARIABLES
    pc,                   \* where the running call waits: "idle", "primary",
                          \* "fallback", "grid", "hourly", "price", "done"
    scans,                \* number of scans started
    tz,                   \* local offset of the process, minutes east of UTC
    now,                  \* the clock
    caller,               \* "scan", "quickScan" or "getAllCityForecasts"
    scanDate,             \* the instant scan forecasts for
    gridPointCache,       \* NWSClient.gridPointCache: cache key -> grid point
    result,               \* the WeatherScanResult being built
    status,               \* "none", "running", "returned", "threw"
    quick,                \* what quickScan returned
    fb,                   \* searchBroadly: its markets and keyword index
    cityCodesWithMarkets, \* the distinct city codes of the forecast phase
    ci,                   \* forecast phase: index of the city being queried
    gridPoint,            \* getHourlyForecast: the grid point it fetches for
    mi,                   \* detect phase: index of the market being refreshed
    oi,                   \* updateMarketPrices: index of the outcome
    calls,                \* history: the external calls and delays of this scan
    detected,             \* history: the detector calls of this scan
    lookups,              \* the getGridPoint calls that await their response
    cityForecasts         \* getAllCityForecasts: its map of forecasts

vars == <<pc, scans, tz, now, caller, scanDate, gridPointCache, result, status,
          quick, fb, cityCodesWithMarkets, ci, gridPoint, mi, oi, calls, detected,
          lookups, cityForecasts>>

NoFallback == [markets |-> <<>>, kw |-> 0]

\* no scan has run yet
NoResult == [markets |-> <<>>, forecasts |-> <<>>, opportunities |-> <<>>, scannedAt |-> 0]

\* mutant: the forecasts of the previous scan stay in the result object
freshResult_KeepsForecasts(nowv) ==
    [markets |-> <<>>, forecasts |-> result.forecasts, opportunities |-> <<>>,
     scannedAt |-> nowv]

\* mutant: the opportunities of the previous scan stay in the result object
freshResult_KeepsOpportunities(nowv) ==
    [markets |-> <<>>, forecasts |-> <<>>, opportunities |-> result.opportunities,
     scannedAt |-> nowv]

\* the result object scan starts from
freshResult(nowv) ==
    [markets |-> <<>>, forecasts |-> <<>>, opportunities |-> <<>>, scannedAt |-> nowv]

Init ==
    /\ pc = "idle"
    /\ scans = 0
    /\ tz \in TzOffsets
    /\ now = Now0
    /\ caller = "scan"
    /\ scanDate = 0
    /\ gridPointCache = <<>>
    /\ result = NoResult
    /\ status = "none"
    /\ quick = NoQuick
    /\ fb = NoFallback
    /\ cityCodesWithMarkets = <<>>
    /\ ci = 0
    /\ gridPoint = NoGridPoint
    /\ mi = 0
    /\ oi = 0
    /\ calls = <<>>
    /\ detected = <<>>
    /\ lookups = {}
    /\ cityForecasts = <<>>

(***************************************************************************)
(* scan, from one await to the next                                        *)
(***************************************************************************)
Event(k, arg, r) == [k |-> k, arg |-> arg, r |-> r]
Delay(ms) == Event("delay", ms, Null)

\* scan returns res (quickScan then returns its summary)
ReturnResult(res, log) ==
    /\ pc' = "done"
    /\ status' = "returned"
    /\ result' = res
    /\ quick' = IF caller = "quickScan" THEN quickOf(res) ELSE quick
    /\ ci' = 0
    /\ gridPoint' = NoGridPoint
    /\ mi' = 0
    /\ oi' = 0
    /\ calls' = log

\* mutant: a market found without forecast after another market has been
\* handled makes the scan ask for that forecast again
DetectFrom_RefetchMissing(res, j, log) ==
    LET k == nextMarketWithForecast(res.markets, res.forecasts, j) IN
    IF j > 1 /\ j <= Len(res.markets) /\ res.markets[j].cityCode \notin DOMAIN res.forecasts
    THEN LET city == res.markets[j].cityCode IN
         /\ ci' = CHOOSE i \in 1..Len(cityCodesWithMarkets) : cityCodesWithMarkets[i] = city
         /\ result' = res
         /\ calls' = Append(log, Event("getDailyHigh", city, Null))
         /\ IF cacheKey(city) \in DOMAIN gridPointCache
            THEN pc' = "hourly" /\ gridPoint' = gridPointCache[cacheKey(city)]
            ELSE pc' = "grid" /\ gridPoint' = NoGridPoint
         /\ mi' = 0
         /\ oi' = 0
         /\ UNCHANGED <<status, quick>>
    ELSE IF k > Len(res.markets)
    THEN ReturnResult([res EXCEPT !.opportunities = sortByEdge(@)], log)
    ELSE /\ pc' = "price"
         /\ mi' = k
         /\ oi' = 1
         /\ result' = res
         /\ ci' = 0
         /\ gridPoint' = NoGridPoint
         /\ calls' = Append(log, Event("updateMarketPrices", k, Null))
         /\ UNCHANGED <<status, quick>>

\* the detect loop from market j on: up to the first price request of
\* updateMarketPrices, or up to the return when no market is left
DetectFrom(res, j, log) ==
    LET k == nextMarketWithForecast(res.markets, res.forecasts, j) IN
    IF k > Len(res.markets)
    THEN ReturnResult([res EXCEPT !.opportunities = sortByEdge(@)], log)
    ELSE /\ pc' = "price"
         /\ mi' = k
         /\ oi' = 1
         /\ result' = res
         /\ ci' = 0
         /\ gridPoint' = NoGridPoint
         /\ calls' = Append(log, Event("updateMarketPrices", k, Null))
         /\ UNCHANGED <<status, quick>>

\* mutant: getGridPoint does not look into its cache
ForecastFrom_NoCache(res, codes, i, log) ==
    IF i > Len(codes)
    THEN DetectFrom(res, 1, log)
    ELSE /\ ci' = i
         /\ result' = res
         /\ calls' = Append(log, Event("getDailyHigh", codes[i], Null))
         /\ pc' = "grid" /\ gridPoint' = NoGridPoint
         /\ UNCHANGED <<mi, oi, status, quick>>

\* the forecast loop from city i on: getDailyHigh up to its first request
ForecastFrom(res, codes, i, log) ==
    IF i > Len(codes)
    THEN DetectFrom(res, 1, log)
    ELSE /\ ci' = i
         /\ result' = res
         /\ calls' = Append(log, Event("getDailyHigh", codes[i], Null))
         /\ IF cacheKey(codes[i]) \in DOMAIN gridPointCache
            THEN pc' = "hourly" /\ gridPoint' = gridPointCache[cacheKey(codes[i])]
            ELSE pc' = "grid" /\ gridPoint' = NoGridPoint
         /\ UNCHANGED <<mi, oi, status, quick>>

\* scan after findTemperatureMarkets has returned markets
AfterDiscovery(res, markets, log) ==
    IF Len(markets) = 0
    THEN /\ ReturnResult([res EXCEPT !.markets = markets], log)
         /\ cityCodesWithMarkets' = <<>>
    ELSE /\ cityCodesWithMarkets' = cityCodesOf(markets)
         /\ ForecastFrom([res EXCEPT !.markets = markets], cityCodesOf(markets), 1, log)

\* scan(targetDate) or quickScan() is invoked: d is the date passed, Undef
\* for none
StartScan(c, d) ==
    /\ pc \in {"idle", "done"}
    /\ scans < MaxScans
    /\ c = "quickScan" => d = Undef
    /\ scans' = scans + 1
    /\ now' = Now0 + 60 * scans
    /\ caller' = c
    /\ scanDate' = IF Truthy(d) THEN d.v ELSE getTomorrowDate(now', tz)
    /\ result' = freshResult(now')
    /\ status' = "running"
    /\ quick' = NoQuick
    /\ fb' = NoFallback
    /\ cityCodesWithMarkets' = <<>>
    /\ ci' = 0
    /\ gridPoint' = NoGridPoint
    /\ mi' = 0
    /\ oi' = 0
    /\ calls' = <<>>
    /\ detected' = <<>>
    /\ pc' = "primary"
    /\ UNCHANGED <<tz, gridPointCache, lookups, cityForecasts>>

\* the primary listing request of findTemperatureMarkets completes
PrimaryResponse(r) ==
    /\ pc = "primary"
    /\ LET out == primaryOutcome(r, now, tz)
           log == Append(calls, Event("listing", "primary", r))
       IN  IF out.t = "ok"
           THEN /\ AfterDiscovery(result, out.v, log)
                /\ fb' = fb
           ELSE /\ pc' = "fallback"
                /\ fb' = [markets |-> <<>>, kw |-> 1]
                /\ calls' = log
                /\ UNCHANGED <<result, status, quick, cityCodesWithMarkets, ci,
                               gridPoint, mi, oi>>
    /\ UNCHANGED <<scans, tz, now, caller, scanDate, gridPointCache, detected,
                   lookups, cityForecasts>>

\* a keyword request of searchBroadly completes
FallbackResponse(r) ==
    /\ pc = "fallback"
    /\ LET out == keywordOutcome(r, fb.markets, now, tz)
           log == Append(calls, Event("listing", KEYWORDS[fb.kw], r))
       IN  IF out.t = "throw"
           THEN /\ fb' = NoFallback
                /\ AfterDiscovery(result, <<>>, log)
           ELSE IF fb.kw < Len(KEYWORDS)
           THEN /\ fb' = [markets |-> out.v, kw |-> fb.kw + 1]
                /\ calls' = Append(log, Delay(200))
                /\ UNCHANGED <<pc, result, status, quick, cityCodesWithMarkets,
                               ci, gridPoint, mi, oi>>
           ELSE /\ fb' = NoFallback
                /\ AfterDiscovery(result, out.v, Append(log, Delay(200)))
    /\ UNCHANGED <<scans, tz, now, caller, scanDate, gridPointCache, detected,
                   lookups, cityForecasts>>

\* what getGridPoint makes of the response to its lookup: Ok(gridPoint),
\* which it caches, or Throw
gridOutcome(r) ==
    IF r.t = "throw" THEN Throw
    ELSE IF ~r.ok THEN Throw
    ELSE IF r.body.t # "object" THEN Throw
    ELSE LET props == Get(r.body, "properties") IN
         IF props.t # "object" THEN Throw ELSE Ok(gridPointOf(props))

\* what getHourlyForecast makes of the response to its fetch: Ok(periods)
\* or Throw
hourlyOutcome(r) ==
    IF r.t = "throw" THEN Throw
    ELSE IF ~r.ok THEN Throw
    ELSE IF r.body.t # "object" THEN Throw
    ELSE LET props == Get(r.body, "properties") IN
         IF props.t # "object" THEN Throw
         ELSE LET periods == Get(props, "periods") IN
              IF periods.t # "array" THEN Throw ELSE Ok(periods.v)

\* the responses a fetch of url can have: a url that is not a string makes
\* fetch reject before any request is sent
FetchResponses(url, responses) == IF url.t = "string" THEN responses ELSE {Throw}

\* the grid lookup of getGridPoint completes (cache miss)
GridResponse(r) ==
    /\ pc = "grid"
    /\ LET city == cityCodesWithMarkets[ci]
           out  == gridOutcome(r)
           log  == Append(calls, Event("grid", city, r))
       IN  IF out.t = "ok"
           THEN /\ gridPointCache' = (cacheKey(city) :> out.v) @@ gridPointCache
                /\ gridPoint' = out.v
                /\ pc' = "hourly"
                /\ calls' = log
                /\ UNCHANGED <<result, status, quick, ci, mi, oi>>
           ELSE /\ ForecastFrom(result, cityCodesWithMarkets, ci + 1, Append(log, Delay(300)))
                /\ UNCHANGED gridPointCache
    /\ UNCHANGED <<scans, tz, now, caller, scanDate, fb, cityCodesWithMarkets, detected,
                   lookups, cityForecasts>>

\* the forecast of a city, as scan records it, from the outcome of the
\* hourly fetch
forecastOf(out, targetDate, nowv) ==
    IF out.t = "ok" THEN dailyHigh(out.v, targetDate, nowv) ELSE Null

\* result.forecasts.set(cityCode, forecast) when there is a forecast
setForecast(forecasts, city, forecast) ==
    IF forecast.t = "ok" THEN (city :> forecast.v) @@ forecasts ELSE forecasts

\* the hourly fetch of getHourlyForecast completes
HourlyResponse(r) ==
    /\ pc = "hourly"
    /\ LET city == cityCodesWithMarkets[ci]
           forecast == forecastOf(hourlyOutcome(r), scanDate, now)
           log  == calls \o <<Event("hourly", city, r), Delay(300)>>
       IN  ForecastFrom([result EXCEPT !.forecasts = setForecast(@, city, forecast)],
                        cityCodesWithMarkets, ci + 1, log)
    /\ UNCHANGED <<scans, tz, now, caller, scanDate, gridPointCache, fb,
                   cityCodesWithMarkets, detected, lookups, cityForecasts>>

\* a getPrice call of updateMarketPrices completes
PriceResponse(r) ==
    /\ pc = "price"
    /\ LET market  == result.markets[mi]
           updated == [market EXCEPT !.outcomes[oi] = applyPrice(@, r)]
           res     == [result EXCEPT !.markets[mi] = updated]
           log     == Append(calls, Event("price", <<mi, oi>>, r))
       IN  IF oi < Len(market.outcomes)
           THEN /\ oi' = oi + 1
                /\ result' = res
                /\ detected' = detected
                /\ calls' = log
                /\ UNCHANGED <<pc, status, quick, ci, gridPoint, mi>>
           ELSE LET forecast == res.forecasts[market.cityCode]
                    opps     == detectOpportunities(updated, forecast)
                IN  /\ detected' = Append(detected, [mi |-> mi, market |-> updated,
                                                     forecast |-> forecast, opps |-> opps])
                    /\ DetectFrom([res EXCEPT !.opportunities = @ \o opps], mi + 1,
                                  Append(log, Event("detectOpportunities", mi, Null)))
    /\ UNCHANGED <<scans, tz, now, caller, scanDate, gridPointCache, fb, cityCodesWithMarkets,
                   lookups, cityForecasts>>

\* the answers the grid lookup in flight may get
GridResponsesNow ==
    IF pc = "grid" THEN GridResponses(cityCodesWithMarkets[ci]) ELSE {}

\* the answers the hourly fetch in flight may get
HourlyResponsesNow ==
    IF pc = "hourly" THEN FetchResponses(gridPoint.forecastHourlyUrl, HourlyResponses) ELSE {}

Next ==
    \/ \E c \in {"scan", "quickScan"}, d \in {Undef} \cup {Stamp(x) : x \in ExplicitDates} :
           StartScan(c, d)
    \/ \E r \in PrimaryResponses : PrimaryResponse(r)
    \/ \E r \in FallbackResponses : FallbackResponse(r)
    \/ \E r \in GridResponsesNow : GridResponse(r)
    \/ \E r \in HourlyResponsesNow : HourlyResponse(r)
    \/ \E r \in PriceResponses : PriceResponse(r)

Spec == Init /\ [][Next]_vars

(***************************************************************************)
(* The calls of scan as functions of the answers they get                  *)
(***************************************************************************)
RECURSIVE searchBroadly(_, _, _, _)
\* searchBroadly given the answers rs to its keyword requests, markets the
\* list so far
searchBroadly(rs, markets, nowv, tzv) ==
    IF rs = <<>> THEN markets
    ELSE LET out == keywordOutcome(Head(rs), markets, nowv, tzv) IN
         IF out.t = "throw" THEN <<>>
         ELSE searchBroadly(Tail(rs), out.v, nowv, tzv)

\* findTemperatureMarkets given the answers rs to its listing requests, the
\* primary one first
findTemperatureMarkets(rs, nowv, tzv) ==
    LET out == primaryOutcome(Head(rs), nowv, tzv) IN
    IF out.t = "ok" THEN out.v ELSE searchBroadly(Tail(rs), <<>>, nowv, tzv)

RECURSIVE updateMarketPrices(_, _)
\* updateMarketPrices given the answers rs to the price requests for the
\* outcomes that remain to be refreshed
updateMarketPrices(outcomes, rs) ==
    IF outcomes = <<>> \/ rs = <<>> THEN outcomes
    ELSE <<applyPrice(Head(outcomes), Head(rs))>> \o updateMarketPrices(Tail(outcomes), Tail(rs))

(***************************************************************************)
(* The functions applied to records and forecasts one at a time            *)
(***************************************************************************)
\* an object with the fields of its five parts; <<>> is a part without field
Fields(parts) == Obj(parts[1] @@ parts[2] @@ parts[3] @@ parts[4] @@ parts[5])

\* question texts: the scenario question, a question without date, one with
\* a slash date, one with an ISO date before an abbreviated month, one whose
\* ISO date does not parse, one without temperature keyword
QuestionTexts ==
    { <<"N", "Y", "C", " ", "H", "i", "g", "h", " ", "T", "e", "m", "p", " ", "D", "e", "c", " ", "2", "5">>,
      <<"N", "Y", "C", " ", "°", "F">>,
      <<"N", "Y", "C", " ", "d", "e", "g", "r", "e", "e", "s", " ", "1", "2", "/", "2", "5">>,
      <<"L", "A", " ", "°", "F", " ", "2", "0", "2", "5", "-", "1", "2", "-", "2", "5", " ", "j", "a", "n", " ", "3">>,
      <<"N", "Y", "C", " ", "°", "F", " ", "2", "0", "2", "5", "-", "1", "3", "-", "4", "5", " ", "D", "e", "c", " ", "2", "5">>,
      <<"N", "Y", "C", " ", "r", "a", "i", "n">> }

\* the question part of a record: absent, a text, or a number
QuestionParts ==
    {<<>>, [question |-> Num(5)]} \cup {[question |-> Text(q)] : q \in QuestionTexts}

\* the end-date part of a record: absent, a timestamp, a text that is no date
EndDateParts ==
    {<<>>, [endDate |-> Stamp((Day0 + 1) * MinutesPerDay + 720)], [endDate |-> Str("TBD")]}

\* the description and slug part of a record
ExtraParts ==
    {<<>>, [description |-> Text(<<"t", "e", "m", "p", "e", "r", "a", "t", "u", "r", "e">>)],
     [slug |-> Text(<<"n", "y", "c", "-", "d", "e", "g", "r", "e", "e", "s">>)]}

\* the outcome part of a record: absent; a list whose first label is no
\* bucket and whose last price is above 1; a list without bucket label; a
\* list with a usable outcome; one whose price text is no number; a list
\* holding null; a value that is no list
OutcomeParts ==
    {<<>>,
     [outcomes |-> Arr(<< Obj([outcome |-> Str("Yes"), id |-> Str("t1")]),
                          Obj([outcome |-> Str("73-77°F"), tokenId |-> Str("t2"),
                               price |-> Num(55)]),
                          Obj([name |-> Str("Below 73°F"), token_id |-> Str("t3"),
                               price |-> Str("1.5")]) >>)],
     [outcomes |-> Arr(<< Obj([outcome |-> Str("Yes"), id |-> Str("t1")]) >>)],
     [tokens |-> Arr(<< Obj([outcome |-> Str("70-72°F"), id |-> Str("t4"),
                             lastTradePrice |-> Str("0.3")]) >>)],
     [outcomes |-> Arr(<< Obj([outcome |-> Str("95°F or above"), tokenId |-> Str("t5"),
                               price |-> Str("n/a")]) >>)],
     [outcomes |-> Arr(<< Null >>)],
     [outcomes |-> Num(5)]}

\* questions that name one tracked city by its full name
CityQuestionTexts ==
    { <<"N", "e", "w", " ", "Y", "o", "r", "k", " ", "C", "i", "t", "y", " ", "°", "F">>,
      <<"L", "o", "s", " ", "A", "n", "g", "e", "l", "e", "s", " ", "°", "F">>,
      <<"C", "h", "i", "c", "a", "g", "o", " ", "°", "F">>,
      <<"M", "i", "a", "m", "i", " ", "°", "F">>,
      <<"D", "a", "l", "l", "a", "s", " ", "°", "F">>,
      <<"S", "e", "a", "t", "t", "l", "e", " ", "°", "F">> }

\* records with such a question and one usable outcome
CityRecords ==
    {Fields(<<[id |-> Str("m1")], [question |-> Text(q)], <<>>, <<>>,
              [outcomes |-> Arr(<< Obj([outcome |-> Str("70-72°F"), tokenId |-> Str("t4"),
                                        price |-> Num(30)]) >>)]>>) :
        q \in CityQuestionTexts}

\* the raw records parseWeatherMarket is applied to
RawRecords ==
    {Fields(<<[id |-> Str("m1")], q, e, x, o>>) :
        q \in QuestionParts, e \in EndDateParts, x \in ExtraParts, o \in OutcomeParts}

\* the answers of getPrice to the requests of one refresh: a failure, 0, a
\* probability inside (0, 1), and 1
PriceAnswerLists ==
    LET A == {Throw, Num(0), Num(40), Num(100)}
    IN  {<<a, b, c>> : a \in A, b \in {Throw, Num(40)}, c \in {Throw, Num(100)}}

\* the hourly forecasts getDailyHigh works on
DayPeriods ==
    HourlyBodies \cup
    { <<>>,
      << Period(Day0 * MinutesPerDay + 600, 90, TRUE, "Hot"),
         Period((Day0 + 1) * MinutesPerDay + 60, 80, FALSE, "Clear"),
         Period((Day0 + 1) * MinutesPerDay + 780, 85, TRUE, "Sunny"),
         Period((Day0 + 1) * MinutesPerDay + 1200, 70, FALSE, "Cloudy"),
         Period((Day0 + 2) * MinutesPerDay + 780, 50, TRUE, "Rain"),
         Period((Day0 + 3) * MinutesPerDay + 780, 95, TRUE, "Hot") >> }

\* the target dates passed to getDailyHigh, as lead times in minutes from
\* the clock: in the past, now, and on both sides of each tier boundary
LeadTimes == {-60, 0, 24 * 60, 24 * 60 + 1, 48 * 60, 48 * 60 + 1, 72 * 60, 72 * 60 + 1}

\* parseWeatherMarket(raw) is called
ApplyParseWeatherMarket(raw) ==
    /\ pc = "idle" /\ scans = 0 /\ calls = <<>>
    /\ calls' = <<Event("parseWeatherMarket", raw, parseWeatherMarket(raw, now, tz))>>
    /\ UNCHANGED <<pc, scans, tz, now, caller, scanDate, gridPointCache, result, status,
                   quick, fb, cityCodesWithMarkets, ci, gridPoint, mi, oi, detected,
                   lookups, cityForecasts>>

\* updateMarketPrices(market) is called on the market parsed from raw and
\* gets the answers rs from getPrice
ApplyUpdateMarketPrices(raw, rs) ==
    /\ pc = "idle" /\ scans = 0 /\ calls = <<>>
    /\ Let(parseWeatherMarket(raw, now, tz), LAMBDA weatherMarket :
          /\ weatherMarket.t = "ok"
          /\ calls' = <<Event("updateMarketPrices", <<raw, rs>>,
                              [weatherMarket.v EXCEPT
                                  !.outcomes = updateMarketPrices(@, rs)])>>)
    /\ UNCHANGED <<pc, scans, tz, now, caller, scanDate, gridPointCache, result, status,
                   quick, fb, cityCodesWithMarkets, ci, gridPoint, mi, oi, detected,
                   lookups, cityForecasts>>

\* getDailyHigh(cityCode, targetDate) has received hourlyForecasts
ApplyDailyHigh(hourlyForecasts, targetDate) ==
    /\ pc = "idle" /\ scans = 0 /\ calls = <<>>
    /\ calls' = <<Event("dailyHigh", [hourlyForecasts |-> hourlyForecasts,
                                      targetDate |-> targetDate],
                        dailyHigh(hourlyForecasts, targetDate, now))>>
    /\ UNCHANGED <<pc, scans, tz, now, caller, scanDate, gridPointCache, result, status,
                   quick, fb, cityCodesWithMarkets, ci, gridPoint, mi, oi, detected,
                   lookups, cityForecasts>>

\* the prices of the outcomes the detector is applied to: five below a
\* fair probability of 6, five and four below one of 93, and a price that
\* is no number
DetectPrices == {Num(1), Num(88), Num(89), NaNv}

\* detectOpportunities(market, forecast) is called on the New York market
\* with the prices prices and on the forecast getDailyHigh makes of
\* hourlyForecasts for targetDate
ApplyDetectOpportunities(prices, hourlyForecasts, targetDate) ==
    /\ pc = "idle" /\ scans = 0 /\ calls = <<>>
    /\ Let(parseWeatherMarket(RawNYC, now, tz), LAMBDA weatherMarket :
       Let(dailyHigh(hourlyForecasts, targetDate, now), LAMBDA forecast :
          /\ weatherMarket.t = "ok"
          /\ forecast.t = "ok"
          /\ Let([weatherMarket.v EXCEPT !.outcomes =
                      [i \in 1..Len(@) |-> [@[i] EXCEPT !.price = prices[i]]]],
                 LAMBDA market :
                    calls' = <<Event("detectOpportunities",
                                     [market |-> market, forecast |-> forecast.v],
                                     detectOpportunities(market, forecast.v))>>)))
    /\ UNCHANGED <<pc, scans, tz, now, caller, scanDate, gridPointCache, result, status,
                   quick, fb, cityCodesWithMarkets, ci, gridPoint, mi, oi, detected,
                   lookups, cityForecasts>>

FunctionsNext ==
    \/ \E raw \in RawRecords \cup CityRecords : ApplyParseWeatherMarket(raw)
    \/ \E raw \in RawRecords, rs \in PriceAnswerLists : ApplyUpdateMarketPrices(raw, rs)
    \/ \E p \in DayPeriods, l \in LeadTimes : ApplyDailyHigh(p, Now0 + l)
    \/ \E p1, p2 \in DetectPrices, p \in DayPeriods, l \in LeadTimes :
           ApplyDetectOpportunities(<<p1, p2>>, p, Now0 + l)

FunctionsSpec == Init /\ [][FunctionsNext]_vars

(***************************************************************************)
(* Reading the history of a scan                                           *)
(***************************************************************************)
\* the positions of the events of kind k
Positions(k) == {i \in 1..Len(calls) : calls[i].k = k}

\* the positions of the events of kind k about arg
PositionsOf(k, arg) == {i \in Positions(k) : calls[i].arg = arg}

\* a listing request failed: it threw or returned a non-success status
RequestFailed(r) == r.t = "throw" \/ ~r.ok

\* a listing response that cannot be read as a list of records
Malformed(r) == r.t = "response" /\ r.ok /\ Iterate(r.body).t = "throw"

\* the call of getDailyHigh that starts at position i has thrown
DailyHighThrew(i) ==
    \E j \in (i + 1)..Len(calls) :
        /\ calls[j].k \in {"grid", "hourly"}
        /\ \A l \in (i + 1)..(j - 1) : calls[l].k \in {"grid", "hourly"}
        /\ IF calls[j].k = "grid" THEN gridOutcome(calls[j].r).t = "throw"
           ELSE hourlyOutcome(calls[j].r).t = "throw"

\* the forecast phase of the running scan is over
ForecastPhaseOver == pc \in {"price", "done"} /\ Len(result.markets) > 0

\* the events of kind k, in order
EventsOf(k) == SelectSeq(calls, LAMBDA e : e.k = k)

\* the answers to the requests of kind k, in order
Answers(k) == [i \in 1..Len(EventsOf(k)) |-> EventsOf(k)[i].r]

\* the answers to the price requests for market m, in order
PriceAnswers(m) ==
    LET es == SelectSeq(calls, LAMBDA e : e.k = "price" /\ e.arg[1] = m)
    IN  [i \in 1..Len(es) |-> es[i].r]

\* the markets discovery returned, as computed from the listing answers
Discovered == findTemperatureMarkets(Answers("listing"), now, tz)

RECURSIVE forecastsFrom(_, _)
\* the forecasts recorded for the hourly answers es, acc those so far
forecastsFrom(es, acc) ==
    IF es = <<>> THEN acc
    ELSE forecastsFrom(Tail(es),
                       setForecast(acc, Head(es).arg,
                                   forecastOf(hourlyOutcome(Head(es).r), scanDate, now)))

RECURSIVE opportunitiesFrom(_, _, _)
\* the detector results for the markets from index m on that have a forecast
opportunitiesFrom(markets, forecasts, m) ==
    IF m > Len(markets) THEN <<>>
    ELSE (IF markets[m].cityCode \in DOMAIN forecasts
          THEN detectOpportunities(markets[m], forecasts[markets[m].cityCode])
          ELSE <<>>) \o opportunitiesFrom(markets, forecasts, m + 1)

\* the result of the scan as a function of the answers it received, of the
\* date it was asked for and of the clock
ExpectedResult ==
    LET fc == forecastsFrom(EventsOf("hourly"), <<>>)
        before == Discovered
        ms == [m \in 1..Len(before) |->
                  [before[m] EXCEPT !.outcomes = updateMarketPrices(@, PriceAnswers(m))]]
    IN  [markets       |-> ms,
         forecasts     |-> fc,
         opportunities |-> sortByEdge(opportunitiesFrom(ms, fc, 1)),
         scannedAt     |-> now]

RECURSIVE Flatten(_)
Flatten(ss) == IF ss = <<>> THEN <<>> ELSE Head(ss) \o Flatten(Tail(ss))

Count(s, x) == Cardinality({i \in 1..Len(s) : s[i] = x})

\* s and u hold the same elements the same number of times
SameElements(s, u) ==
    /\ Len(s) = Len(u)
    /\ \A i \in 1..Len(s) : Count(s, s[i]) = Count(u, s[i])

\* the phase an event belongs to: 1 discover, 2 forecast, 3 detect, 0 for a
\* delay
Phase(e) ==
    CASE e.k = "listing" -> 1
      [] e.k \in {"getDailyHigh", "grid", "hourly"} -> 2
      [] e.k \in {"updateMarketPrices", "price", "detectOpportunities"} -> 3
      [] OTHER -> 0

(***************************************************************************)
(* Properties                                                              *)
(***************************************************************************)

\* C1: when the primary listing request and every fallback listing request
\* of a scan have failed (thrown or returned a non-success status), scan
\* does not return a result: it fails with an error.
C1_DiscoveryFailureIsAnError ==
    (/\ pc = "done"
     /\ Positions("listing") # {}
     /\ \A i \in Positions("listing") : RequestFailed(calls[i].r))
    => status = "threw"

\* C2: getDailyHigh is called at most once per city and only for cities
\* of discovered markets; once the forecast phase is over it has been
\* called exactly once for each distinct city of the markets; a city whose
\* call threw has no forecast; the scan never fails for it, and at the end
\* every market whose city has a forecast has gone through the detector.
C2_OneForecastCallPerCity ==
    /\ status # "threw"
    /\ \A i \in Positions("getDailyHigh") :
          /\ Cardinality(PositionsOf("getDailyHigh", calls[i].arg)) = 1
          /\ \E m \in 1..Len(result.markets) : result.markets[m].cityCode = calls[i].arg
          /\ DailyHighThrew(i) => calls[i].arg \notin DOMAIN result.forecasts
    /\ ForecastPhaseOver =>
          \A m \in 1..Len(result.markets) :
              Cardinality(PositionsOf("getDailyHigh", result.markets[m].cityCode)) = 1
    /\ (pc = "done" /\ Len(result.markets) > 0) =>
          \A m \in 1..Len(result.markets) :
              result.markets[m].cityCode \in DOMAIN result.forecasts
                  => PositionsOf("detectOpportunities", m) # {}

\* C2 witness: a finished scan in which the call for the first city threw,
\* a later city was still queried and got a forecast, and the detector ran.
C2_Witness ==
    /\ pc = "done"
    /\ Len(cityCodesWithMarkets) = 2
    /\ \E i \in PositionsOf("getDailyHigh", cityCodesWithMarkets[1]) : DailyHighThrew(i)
    /\ cityCodesWithMarkets[2] \in DOMAIN result.forecasts
    /\ Len(detected) > 0

\* C3: every (market, forecast) pair passed to the detector is matched: the
\* forecast is the one recorded for the market's city and its date is the
\* market's target date.
C3_DetectorPairsAreMatched ==
    \A i \in 1..Len(detected) :
        /\ detected[i].forecast = result.forecasts[detected[i].market.cityCode]
        /\ detected[i].forecast.date = detected[i].market.targetDate

\* C4: a price request is only ever made for a market whose city has a
\* forecast; a market is passed to the detector only after a price request
\* for each of its outcomes has completed, and no price request for it
\* follows; at the end each market whose city has a forecast has been
\* passed to the detector exactly once and each other market has caused no
\* price request and no detector call; the scan does not fail.
C4_RefreshThenDetect ==
    /\ status # "threw"
    /\ pc = "price" => result.markets[mi].cityCode \in DOMAIN result.forecasts
    /\ \A i \in Positions("price") :
          result.markets[calls[i].arg[1]].cityCode \in DOMAIN result.forecasts
    /\ \A i \in Positions("detectOpportunities") :
          LET m == calls[i].arg IN
          /\ result.markets[m].cityCode \in DOMAIN result.forecasts
          /\ \A o \in 1..Len(result.markets[m].outcomes) :
                \E j \in PositionsOf("price", <<m, o>>) : j < i
          /\ \A j \in Positions("price") : calls[j].arg[1] = m => j < i
    /\ pc = "done" =>
          \A m \in 1..Len(result.markets) :
              IF result.markets[m].cityCode \in DOMAIN result.forecasts
              THEN Cardinality(PositionsOf("detectOpportunities", m)) = 1
              ELSE /\ PositionsOf("detectOpportunities", m) = {}
                   /\ \A j \in Positions("price") : calls[j].arg[1] # m

\* C4 witness: a finished scan with a market that was refreshed and
\* detected and another market that was skipped for lack of a forecast.
C4_Witness ==
    /\ pc = "done"
    /\ \E m \in 1..Len(result.markets) : PositionsOf("detectOpportunities", m) # {}
    /\ \E m \in 1..Len(result.markets) :
          result.markets[m].cityCode \notin DOMAIN result.forecasts

\* C5: the opportunities scan returns are exactly those the detector calls
\* of the scan returned, ordered by non-increasing edge; quickScan reports
\* their number and, as topOpportunity, one of maximal edge, null when there
\* is none.
C5_OpportunitiesSortedByEdge ==
    pc = "done" =>
        /\ SameElements(result.opportunities,
                        Flatten([i \in 1..Len(detected) |-> detected[i].opps]))
        /\ \A i \in 1..(Len(result.opportunities) - 1) :
              result.opportunities[i].edge >= result.opportunities[i + 1].edge
        /\ caller = "quickScan" =>
              /\ quick.count = Len(result.opportunities)
              /\ quick.hasOpportunities = (Len(result.opportunities) > 0)
              /\ IF Len(result.opportunities) = 0
                 THEN quick.topOpportunity = Null
                 ELSE /\ quick.topOpportunity.t = "ok"
                      /\ \E i \in 1..Len(result.opportunities) :
                            result.opportunities[i] = quick.topOpportunity.v
                      /\ \A i \in 1..Len(result.opportunities) :
                            result.opportunities[i].edge <= quick.topOpportunity.v.edge

\* C5 witness: a finished quickScan whose detector calls returned two
\* opportunities, the later one with the larger edge.
C5_Witness ==
    /\ pc = "done"
    /\ caller = "quickScan"
    /\ LET found == Flatten([i \in 1..Len(detected) |-> detected[i].opps])
       IN  \E i, j \in 1..Len(found) : i < j /\ found[i].edge < found[j].edge

\* C6: a scan whose discovery yields no market returns successfully with
\* no market, no forecast and no opportunity, and has made no forecast call
\* and no price call.
C6_NoMarketsNoCalls ==
    (pc = "done" /\ Len(result.markets) = 0) =>
        /\ status = "returned"
        /\ result.forecasts = <<>>
        /\ result.opportunities = <<>>
        /\ \A i \in 1..Len(calls) : Phase(calls[i]) \in {0, 1}

\* C6 witness: a second scan that found no market although the primary
\* listing request succeeded, on a scanner whose earlier scan got forecasts.
C6_Witness ==
    /\ pc = "done"
    /\ scans = 2
    /\ Len(result.markets) = 0
    /\ gridPointCache # <<>>
    /\ ~RequestFailed(calls[1].r)

\* C7: the keyword requests of the fallback are issued if and only if the
\* primary listing query failed, and after it; when the primary query
\* succeeds the markets parsed from its response are what discovery returns.
C7_FallbackIffPrimaryFailed ==
    Positions("listing") # {} =>
        LET primary == calls[1]
            failed  == RequestFailed(primary.r) \/ Malformed(primary.r)
            fellBack == pc = "fallback"
                        \/ \E i \in Positions("listing") : calls[i].arg # "primary"
        IN  /\ primary.k = "listing" /\ primary.arg = "primary"
            /\ \A i \in Positions("listing") : i > 1 => calls[i].arg # "primary"
            /\ fellBack <=> failed
            /\ (~failed /\ pc \notin {"primary", "fallback"}) =>
                  Len(result.markets) = Len(Iterate(primary.r.body).v)
                      - Cardinality({i \in 1..Len(Iterate(primary.r.body).v) :
                            parseWeatherMarket(Iterate(primary.r.body).v[i], now, tz).t # "ok"})

\* C8: the events of a scan come in phase order: no listing request after a
\* forecast request, no forecast request after a price request or a
\* detector call; while a listing request is in flight nothing of a later
\* phase has happened, and while a forecast request is in flight no price
\* request and no detector call has happened.
C8_PhasesInSequence ==
    /\ \A i, j \in 1..Len(calls) :
          (i < j /\ Phase(calls[i]) > 0 /\ Phase(calls[j]) > 0)
              => Phase(calls[i]) <= Phase(calls[j])
    /\ pc \in {"primary", "fallback"} => \A i \in 1..Len(calls) : Phase(calls[i]) <= 1
    /\ pc \in {"grid", "hourly"} => \A i \in 1..Len(calls) : Phase(calls[i]) <= 2

\* C8 witness: a finished scan that listed markets, queried the forecasts
\* of two cities and refreshed and evaluated a market.
C8_Witness ==
    /\ pc = "done"
    /\ Positions("listing") # {}
    /\ Cardinality(Positions("getDailyHigh")) = 2
    /\ Positions("price") # {}
    /\ Positions("detectOpportunities") # {}

CacheOnlyGrows ==
    \A k \in DOMAIN gridPointCache :
        k \in DOMAIN gridPointCache' /\ gridPointCache'[k] = gridPointCache[k]

\* C9: the result of every scan is the one computed from the answers
\* received during that scan alone (with the date asked for and the clock),
\* whatever the scans before it did; across steps the grid-point cache only
\* gains entries.
C9_CleanRecomputation ==
    /\ [](pc = "done" => result = ExpectedResult)
    /\ [][CacheOnlyGrows]_vars

\* C9 witness: a second scan has finished with opportunities, its forecast
\* call having used a grid point cached by the first scan.
C9_Witness ==
    /\ pc = "done"
    /\ scans = 2
    /\ Len(result.opportunities) > 0
    /\ \E i \in Positions("getDailyHigh") : i < Len(calls) /\ calls[i + 1].k = "hourly"

\* C10: refreshing prices never fails the scan and changes nothing of a
\* market but the prices of its outcomes; an outcome whose price request
\* threw keeps the price it had; after a price request that threw, the
\* request for the next outcome of the market is still made.
C10_PriceFailureKeepsOldPrice ==
    pc \in {"price", "done"} =>
        LET before == Discovered IN
        /\ status # "threw"
        /\ Len(result.markets) = Len(before)
        /\ \A m \in 1..Len(before) :
              /\ [result.markets[m] EXCEPT !.outcomes = before[m].outcomes] = before[m]
              /\ Len(result.markets[m].outcomes) = Len(before[m].outcomes)
              /\ \A o \in 1..Len(before[m].outcomes) :
                    [result.markets[m].outcomes[o] EXCEPT !.price = before[m].outcomes[o].price]
                        = before[m].outcomes[o]
        /\ \A i \in Positions("price") :
              LET m == calls[i].arg[1]
                  o == calls[i].arg[2]
              IN  calls[i].r.t = "throw" =>
                    /\ result.markets[m].outcomes[o].price = before[m].outcomes[o].price
                    /\ o < Len(before[m].outcomes) =>
                          \/ (pc = "price" /\ mi = m /\ oi = o + 1)
                          \/ \E j \in PositionsOf("price", <<m, o + 1>>) : j > i

\* C10 witness: a finished scan in which the price request for the first
\* outcome of a market threw and the one for its second outcome set a price.
C10_Witness ==
    /\ pc = "done"
    /\ \E i \in Positions("price") :
          /\ calls[i].r.t = "throw"
          /\ calls[i].arg[2] = 1
          /\ \E j \in PositionsOf("price", <<calls[i].arg[1], 2>>) :
                /\ calls[j].r.t = "number"
                /\ result.markets[calls[i].arg[1]].outcomes[2].price = calls[j].r

(***************************************************************************)
(* Reading a record                                                        *)
(***************************************************************************)
\* the label of a raw outcome
labelOf(o) ==
    Or(Or(Or(Get(o, "outcome"), Get(o, "name")), Get(o, "title")), Str(""))

\* the raw outcomes of a record, none when it carries no list of outcomes
rawOutcomes(raw) ==
    Let(Or(Or(Get(raw, "outcomes"), Get(raw, "tokens")), Arr(<<>>)), LAMBDA list :
        IF list.t = "array" THEN SelectSeq(list.v, LAMBDA o : o.t = "object") ELSE <<>>)

\* the raw outcomes of a record whose label is the text of a bucket
usableOutcomes(raw) ==
    SelectSeq(rawOutcomes(raw), LAMBDA o : parseTempBucket(labelOf(o)).t = "ok")

\* the lowercased text of a field of a record, empty when it has none
fieldText(raw, f) ==
    IF Get(raw, f).t = "text" THEN toLowerCase(Get(raw, f).v) ELSE <<>>

\* the text the record is known by: its question, else its title
questionText(raw) ==
    IF Get(raw, "question").t = "text" /\ Get(raw, "question").v # <<>>
    THEN fieldText(raw, "question") ELSE fieldText(raw, "title")

\* one of the record's question, description and slug holds a keyword
combinedTextHasKeyword(raw) ==
    \E f \in {"question", "title", "description", "slug"} : isTempQuestion(fieldText(raw, f))

\* the record carries an end date that does not parse
endDateUnparseable(raw) ==
    Truthy(Get(raw, "endDate")) /\ NewDate(Get(raw, "endDate")).t = "invalid"

\* the question is absent or a text
questionReadable(raw) == Get(raw, "question").t \in {"undefined", "text"}

\* the first pattern, from pattern n on, that matches the question and
\* whose text parses to a date: Ok of the calendar day that text names, a
\* form without time zone naming a day of the local calendar
RECURSIVE firstPatternDay(_, _, _)
firstPatternDay(question, n, tzv) ==
    IF n > 4 THEN Null
    ELSE Let(MatchPattern(question, n), LAMBDA m :
         IF m.t = "match" /\ DateParse(m, tzv).t = "date"
         THEN Ok(IF m.kind = "iso" THEN ISODate(DateParse(m, tzv).v)
                 ELSE LocalDay(DateParse(m, tzv).v, tzv))
         ELSE firstPatternDay(question, n + 1, tzv))

\* C11: every outcome price of a market handed to the detector, that is of a
\* parsed market after updateMarketPrices, is a number strictly between 0
\* and 1 (here 0 and 100 percent), whatever the price fields of the record
\* and whatever numbers in [0, 1] getPrice returned.
C11_PricesStrictlyInsideUnitInterval ==
    \A i \in Positions("updateMarketPrices") :
        LET rs == calls[i].arg[2]
            market == calls[i].r
        IN  (\A j \in 1..Len(rs) : rs[j].t = "number" /\ rs[j].v \in 0..100)
            => \A o \in 1..Len(market.outcomes) :
                  /\ market.outcomes[o].price.t = "number"
                  /\ market.outcomes[o].price.v > 0
                  /\ market.outcomes[o].price.v < 100

\* C12: parseWeatherMarket returns a normalized market or absent for every
\* record; it never raises an error.
C12_ParseNeverRaises ==
    \A i \in Positions("parseWeatherMarket") : calls[i].r.t \in {"ok", "null"}

\* C13: the outcomes of a normalized market are the record's outcomes whose
\* label is the text of a bucket, in their order, and there is at least one;
\* a record none of whose labels is the text of a bucket gives absent.
C13_OutcomesAreTheUsableOnes ==
    \A i \in Positions("parseWeatherMarket") :
        LET raw == calls[i].arg
            usable == usableOutcomes(raw)
            r == calls[i].r
        IN  /\ r.t = "ok" =>
                 /\ Len(r.v.outcomes) = Len(usable)
                 /\ Len(r.v.outcomes) >= 1
                 /\ \A j \in 1..Len(usable) :
                       /\ r.v.outcomes[j].bucket = parseTempBucket(labelOf(usable[j])).v
                       /\ r.v.outcomes[j].tokenId =
                              Or(Or(Get(usable[j], "tokenId"), Get(usable[j], "token_id")),
                                 Get(usable[j], "id"))
            /\ usable = <<>> => r.t = "null"

\* C14: the target date of a market is the date of the record's end date
\* when it has one; otherwise the day named by the first date pattern that
\* matches the question and parses; otherwise the day after the scan.  A
\* record that passes the other tests is never absent for lack of a date.
C14_TargetDatePrecedence ==
    \A i \in Positions("parseWeatherMarket") :
        LET raw == calls[i].arg
            r == calls[i].r
            fromQuestion == firstPatternDay(questionText(raw), 1, tz)
        IN  ~endDateUnparseable(raw) =>
              /\ r.t = "ok" =>
                   r.v.targetDate =
                       IF Truthy(Get(raw, "endDate")) THEN ISODate(NewDate(Get(raw, "endDate")).v)
                       ELSE IF fromQuestion.t = "ok" THEN fromQuestion.v
                       ELSE LocalDay(now, tz) + 1
              /\ (/\ questionReadable(raw)
                  /\ isTempQuestion(questionText(raw))
                  /\ matchCity(questionText(raw)) # ""
                  /\ usableOutcomes(raw) # <<>>) => r.t = "ok"

\* C15: the keyword test reads the question, the description and the slug:
\* a record with a keyword in one of them is not absent for lack of a
\* keyword, and a record with a keyword in none of them is absent.
C15_KeywordTestOnCombinedText ==
    \A i \in Positions("parseWeatherMarket") :
        LET raw == calls[i].arg
            r == calls[i].r
        IN  /\ (/\ combinedTextHasKeyword(raw)
                /\ questionReadable(raw)
                /\ matchCity(questionText(raw)) # ""
                /\ ~endDateUnparseable(raw)
                /\ usableOutcomes(raw) # <<>>) => r.t = "ok"
            /\ (~combinedTextHasKeyword(raw) /\ questionReadable(raw)) => r.t = "null"

\* C16: the record with question "NYC High Temp Dec 25", without end date
\* and with a usable outcome, is parsed into a market of NYC whose target
\* date is 2025-12-25.
C16_ScenarioDec25 ==
    \A i \in Positions("parseWeatherMarket") :
        LET raw == calls[i].arg
            r == calls[i].r
        IN  (/\ Get(raw, "question") = Text(<<"N", "Y", "C", " ", "H", "i", "g", "h", " ", "T", "e", "m", "p", " ", "D", "e", "c", " ", "2", "5">>)
             /\ ~Truthy(Get(raw, "endDate"))
             /\ usableOutcomes(raw) # <<>>)
            => /\ r.t = "ok"
               /\ r.v.cityCode = "NYC"
               /\ r.v.targetDate = DaysFromCivil(2025, 12, 25)

(***************************************************************************)
(* Reading a forecast                                                      *)
(***************************************************************************)
\* the periods of hourlyForecasts that start on the UTC day of targetDate
periodsOn(hourlyForecasts, targetDate) ==
    SelectSeq(hourlyForecasts, LAMBDA f : ISODate(f.startTime) = ISODate(targetDate))

\* the events appended to the history by the step
newEvents ==
    IF Len(calls') >= Len(calls) /\ SubSeq(calls', 1, Len(calls)) = calls
    THEN SubSeq(calls', Len(calls) + 1, Len(calls'))
    ELSE calls'

\* C17: the confidence of a forecast follows the lead time L = max(0,
\* targetDate - now): L <= 24h very_high, 24h < L <= 48h high, 48h < L <= 72h
\* medium, L > 72h low; a target date in the past gives very_high.
C17_ConfidenceTiers ==
    \A i \in Positions("dailyHigh") :
        LET d == calls[i].arg.targetDate - now
            L == IF d > 0 THEN d ELSE 0
            r == calls[i].r
        IN  r.t = "ok" =>
              /\ L <= 24 * 60 => r.v.confidence = "very_high"
              /\ (24 * 60 < L /\ L <= 48 * 60) => r.v.confidence = "high"
              /\ (48 * 60 < L /\ L <= 72 * 60) => r.v.confidence = "medium"
              /\ L > 72 * 60 => r.v.confidence = "low"
              /\ d < 0 => r.v.confidence = "very_high"

\* C17 witness: a forecast for a target date exactly 24 hours ahead.
C17_Witness ==
    \E i \in Positions("dailyHigh") :
        /\ calls[i].arg.targetDate - now = 24 * 60
        /\ calls[i].r.t = "ok"
        /\ calls[i].r.v.confidence = "very_high"

\* C18: when the hourly fetch of a city succeeded and none of its periods
\* starts on the target date, getDailyHigh returns null, raising nothing,
\* the scan goes on and the city has no entry in result.forecasts.
C18_NoPeriodOnTargetDateIsAbsent ==
    \A i \in Positions("hourly") :
        LET out == hourlyOutcome(calls[i].r) IN
        (out.t = "ok" /\ periodsOn(out.v, scanDate) = <<>>) =>
            /\ dailyHigh(out.v, scanDate, now) = Null
            /\ calls[i].arg \notin DOMAIN result.forecasts
            /\ status # "threw"
            /\ i < Len(calls) /\ calls[i + 1] = Delay(300)

\* C18 witness: a finished scan of two cities in which the periods fetched
\* for the first city all fell on other dates and the second city got a
\* forecast.
C18_Witness ==
    /\ pc = "done"
    /\ Len(cityCodesWithMarkets) = 2
    /\ cityCodesWithMarkets[2] \in DOMAIN result.forecasts
    /\ \E i \in PositionsOf("hourly", cityCodesWithMarkets[1]) :
          /\ hourlyOutcome(calls[i].r).t = "ok"
          /\ Len(hourlyOutcome(calls[i].r).v) > 0
          /\ periodsOn(hourlyOutcome(calls[i].r).v, scanDate) = <<>>

\* C19: the high and the low of a forecast are the highest and the lowest
\* temperature of the periods that start on the target date, and of those
\* alone; the low is at most the high.
C19_HighAndLowOverMatchingPeriods ==
    \A i \in Positions("dailyHigh") :
        LET on == periodsOn(calls[i].arg.hourlyForecasts, calls[i].arg.targetDate)
            r == calls[i].r
        IN  /\ r.t = "ok" <=> on # <<>>
            /\ r.t = "ok" =>
                 /\ \E j \in 1..Len(on) : on[j].temperature = r.v.highTemp
                 /\ \A j \in 1..Len(on) : on[j].temperature <= r.v.highTemp
                 /\ \E j \in 1..Len(on) : on[j].temperature = r.v.lowTemp
                 /\ \A j \in 1..Len(on) : on[j].temperature >= r.v.lowTemp
                 /\ r.v.lowTemp <= r.v.highTemp

\* C19 witness: a forecast whose high is not the temperature of the first
\* matching period, made from periods among which one of another date is
\* hotter than the high and one of another date colder than the low.
C19_Witness ==
    \E i \in Positions("dailyHigh") :
        LET all == calls[i].arg.hourlyForecasts
            on == periodsOn(all, calls[i].arg.targetDate)
            r == calls[i].r
        IN  /\ r.t = "ok"
            /\ on[1].temperature < r.v.highTemp
            /\ r.v.lowTemp < on[1].temperature
            /\ \E j \in 1..Len(all) : all[j].temperature > r.v.highTemp
            /\ \E j \in 1..Len(all) : all[j].temperature < r.v.lowTemp

\* what a step does about the grid point of the city whose forecast it asks
\* for, or whose lookup it completes
GridPointStep ==
    /\ CacheOnlyGrows
    /\ \A j \in 1..Len(newEvents) :
          /\ newEvents[j].k = "getDailyHigh" =>
                IF cacheKey(newEvents[j].arg) \in DOMAIN gridPointCache
                THEN /\ pc' = "hourly"
                     /\ gridPoint' = gridPointCache[cacheKey(newEvents[j].arg)]
                     /\ gridPointCache' = gridPointCache
                ELSE pc' = "grid"
          /\ newEvents[j].k = "grid" =>
                /\ pc = "grid"
                /\ j = 1
                /\ cacheKey(newEvents[j].arg) \notin DOMAIN gridPointCache
                /\ \A l \in 2..Len(newEvents) : newEvents[l].k # "grid"
                /\ Len(calls) > 0 /\ calls[Len(calls)] = Event("getDailyHigh", newEvents[j].arg, Null)
                /\ gridOutcome(newEvents[j].r).t = "ok" =>
                      /\ cacheKey(newEvents[j].arg) \in DOMAIN gridPointCache'
                      /\ gridPoint' = gridPointCache'[cacheKey(newEvents[j].arg)]
    /\ pc' = "grid" => (Len(newEvents) > 0 /\ newEvents[Len(newEvents)].k = "getDailyHigh")

\* C20: a getGridPoint call for a coordinate pair that is in the cache
\* returns the cached grid point without any request, in this scan and in
\* every later one; a call for a pair that is not in the cache makes
\* exactly one lookup, and a lookup that succeeds puts its grid point in
\* the cache, where it never changes.
C20_GridPointCached == [][GridPointStep]_vars

\* C20 witness: the second scan asks for the forecast of a city whose grid
\* point the first scan cached, and goes to the hourly fetch with it.
C20_Witness ==
    /\ scans = 2
    /\ pc = "hourly"
    /\ Positions("grid") = {}
    /\ calls[Len(calls)].k = "getDailyHigh"
    /\ cacheKey(calls[Len(calls)].arg) \in DOMAIN gridPointCache
    /\ gridPoint = gridPointCache[cacheKey(calls[Len(calls)].arg)]

(***************************************************************************)
(* Reading a grid response                                                 *)
(***************************************************************************)
\* the fields getGridPoint reads from the properties of a grid response
GridFields == {"gridId", "gridX", "gridY", "forecast", "forecastHourly"}

\* a successful grid response that lacks one of the fields getGridPoint
\* reads, or has no properties at all
gridMalformed(r) ==
    /\ r.t = "response"
    /\ r.ok
    /\ \/ r.body.t # "object"
       \/ Get(r.body, "properties").t # "object"
       \/ \E f \in GridFields : Get(Get(r.body, "properties"), f).t = "undefined"

\* a grid point all of whose fields are defined
gridPointValid(g) ==
    \A f \in {"office", "gridX", "gridY", "forecastUrl", "forecastHourlyUrl"} :
        g[f].t # "undefined"

\* C21: when the grid lookup returns a non-success status or a malformed
\* response (one lacking the hourly forecast URL, say), getGridPoint
\* raises: the lookup is not repeated, the cache gets no entry for the
\* coordinate, and no invalid grid point is ever in the cache.
C21_FailedLookupCachesNothing ==
    /\ \A i \in Positions("grid") :
          (RequestFailed(calls[i].r) \/ gridMalformed(calls[i].r)) =>
              /\ gridOutcome(calls[i].r).t = "throw"
              /\ cacheKey(calls[i].arg) \notin DOMAIN gridPointCache
              /\ Cardinality(PositionsOf("grid", calls[i].arg)) = 1
    /\ \A key \in DOMAIN gridPointCache : gridPointValid(gridPointCache[key])

(***************************************************************************)
(* getGridPoint called by several callers of one client                    *)
(***************************************************************************)
\* the number of getGridPoint calls made
MaxLookups == 3

\* the cities getGridPoint is called for
LookupCities == {"NYC", "LA"}

\* getGridPoint is called for the coordinates of cityCode: it returns the
\* cached grid point, or sends its lookup and awaits the response
CallGetGridPoint(cityCode) ==
    /\ pc = "idle" /\ scans = 0
    /\ Cardinality({i \in 1..Len(calls) : calls[i].k = "getGridPoint"}) < MaxLookups
    /\ IF cacheKey(cityCode) \in DOMAIN gridPointCache
       THEN /\ calls' = Append(calls, Event("getGridPoint", cityCode,
                                            Ok(gridPointCache[cacheKey(cityCode)])))
            /\ lookups' = lookups
       ELSE /\ calls' = Append(calls, Event("getGridPoint", cityCode, Null))
            /\ lookups' = lookups \cup {[id |-> Len(calls) + 1, cityCode |-> cityCode]}
    /\ UNCHANGED <<pc, scans, tz, now, caller, scanDate, gridPointCache, result, status,
                   quick, fb, cityCodesWithMarkets, ci, gridPoint, mi, oi, detected,
                   cityForecasts>>

\* the response to the lookup of the waiting call l arrives: the call sets
\* the cache entry and returns, or throws
LookupResponse(l, r) ==
    /\ l \in lookups
    /\ LET out == gridOutcome(r) IN
       gridPointCache' = IF out.t = "ok"
                         THEN (cacheKey(l.cityCode) :> out.v) @@ gridPointCache
                         ELSE gridPointCache
    /\ lookups' = lookups \ {l}
    /\ calls' = Append(calls, Event("grid", l, r))
    /\ UNCHANGED <<pc, scans, tz, now, caller, scanDate, result, status,
                   quick, fb, cityCodesWithMarkets, ci, gridPoint, mi, oi, detected,
                   cityForecasts>>

LookupNext ==
    \/ \E cityCode \in LookupCities : CallGetGridPoint(cityCode)
    \/ \E l \in lookups : \E r \in GridResponses(l.cityCode) : LookupResponse(l, r)

LookupSpec == Init /\ [][LookupNext]_vars

\* C22: the grid cache is append-only under every interleaving of
\* getGridPoint calls, two overlapping calls for the same coordinate that
\* both miss the cache included: an entry is never removed and never
\* replaced by a different value.
C22_CacheAppendOnly == [][CacheOnlyGrows]_vars

(***************************************************************************)
(* The pacing of the external calls                                        *)
(***************************************************************************)
\* the provider an event is a request to, "none" for the other events
Provider(e) ==
    CASE e.k = "listing" -> "listing"
      [] e.k \in {"grid", "hourly"} -> "forecast"
      [] e.k = "price" -> "price"
      [] OTHER -> "none"

\* the positions of the requests to provider p
RequestsTo(p) == {i \in 1..Len(calls) : Provider(calls[i]) = p}

\* C23: within one scan the external calls are made one at a time, and
\* between two successive calls to the forecast provider, and between two
\* successive calls to the price provider, there is an explicit delay:
\* between the grid lookup and the hourly fetch, between the forecast calls
\* of successive cities, between successive price requests.
C23_DelayBetweenCallsToOneProvider ==
    /\ pc \in {"primary", "fallback", "grid", "hourly", "price"} => status = "running"
    /\ \A p \in {"forecast", "price"} :
          \A i, j \in RequestsTo(p) :
              (i < j /\ \A l \in (i + 1)..(j - 1) : l \notin RequestsTo(p))
                  => \E d \in (i + 1)..(j - 1) : calls[d].k = "delay"

(***************************************************************************)
(* getAllCityForecasts, from one await to the next                         *)
(***************************************************************************)
\* Object.entries(CITIES): the city codes in the order of the table
TrackedCities == <<"NYC", "LA", "Chicago", "Miami", "Dallas", "Seattle">>

\* the dates getAllCityForecasts is called with
AllCitiesDates == {(Day0 + 1) * MinutesPerDay}

\* the loop from city i on, fc the map so far: getDailyHigh up to its first
\* request, or the return of the map when no city is left
AllCitiesFrom(fc, i, log) ==
    /\ cityForecasts' = fc
    /\ IF i > Len(TrackedCities)
       THEN /\ pc' = "done"
            /\ status' = "returned"
            /\ ci' = 0
            /\ gridPoint' = NoGridPoint
            /\ calls' = log
       ELSE /\ ci' = i
            /\ status' = "running"
            /\ calls' = Append(log, Event("getDailyHigh", TrackedCities[i], Null))
            /\ IF cacheKey(TrackedCities[i]) \in DOMAIN gridPointCache
               THEN pc' = "hourly" /\ gridPoint' = gridPointCache[cacheKey(TrackedCities[i])]
               ELSE pc' = "grid" /\ gridPoint' = NoGridPoint

\* getAllCityForecasts(targetDate) is invoked
StartAllCityForecasts(targetDate) ==
    /\ pc = "idle" /\ scans = 0 /\ calls = <<>>
    /\ caller' = "getAllCityForecasts"
    /\ scanDate' = targetDate
    /\ AllCitiesFrom(<<>>, 1, <<>>)
    /\ UNCHANGED <<scans, tz, now, gridPointCache, result, quick, fb,
                   cityCodesWithMarkets, mi, oi, detected, lookups>>

\* mutant: an error of the grid lookup is not caught
AllCitiesGridResponse_Raises(r) ==
    /\ pc = "grid" /\ caller = "getAllCityForecasts"
    /\ LET city == TrackedCities[ci]
           out  == gridOutcome(r)
           log  == Append(calls, Event("grid", city, r))
       IN  IF out.t = "ok"
           THEN /\ gridPointCache' = (cacheKey(city) :> out.v) @@ gridPointCache
                /\ gridPoint' = out.v
                /\ pc' = "hourly"
                /\ calls' = log
                /\ UNCHANGED <<status, ci, cityForecasts>>
           ELSE /\ pc' = "done"
                /\ status' = "threw"
                /\ calls' = log
                /\ UNCHANGED <<gridPointCache, gridPoint, ci, cityForecasts>>
    /\ UNCHANGED <<scans, tz, now, caller, scanDate, result, quick, fb,
                   cityCodesWithMarkets, mi, oi, detected, lookups>>

\* the grid lookup of getGridPoint completes (cache miss): on an error the
\* catch block of the loop is entered and the loop goes on
AllCitiesGridResponse(r) ==
    /\ pc = "grid" /\ caller = "getAllCityForecasts"
    /\ LET city == TrackedCities[ci]
           out  == gridOutcome(r)
           log  == Append(calls, Event("grid", city, r))
       IN  IF out.t = "ok"
           THEN /\ gridPointCache' = (cacheKey(city) :> out.v) @@ gridPointCache
                /\ gridPoint' = out.v
                /\ pc' = "hourly"
                /\ calls' = log
                /\ UNCHANGED <<status, ci, cityForecasts>>
           ELSE /\ AllCitiesFrom(cityForecasts, ci + 1, log)
                /\ UNCHANGED gridPointCache
    /\ UNCHANGED <<scans, tz, now, caller, scanDate, result, quick, fb,
                   cityCodesWithMarkets, mi, oi, detected, lookups>>

\* the hourly fetch of getHourlyForecast completes: on an error the catch
\* block of the loop is entered, else the forecast is set when there is one
\* and the loop waits 200 ms
AllCitiesHourlyResponse(r) ==
    /\ pc = "hourly" /\ caller = "getAllCityForecasts"
    /\ LET city == TrackedCities[ci]
           out  == hourlyOutcome(r)
           log  == Append(calls, Event("hourly", city, r))
       IN  IF out.t = "throw"
           THEN AllCitiesFrom(cityForecasts, ci + 1, log)
           ELSE AllCitiesFrom(setForecast(cityForecasts, city, dailyHigh(out.v, scanDate, now)),
                              ci + 1, Append(log, Delay(200)))
    /\ UNCHANGED <<scans, tz, now, caller, scanDate, gridPointCache, result, quick, fb,
                   cityCodesWithMarkets, mi, oi, detected, lookups>>

\* the answers the grid lookup of getAllCityForecasts may get
AllCitiesGridResponsesNow ==
    IF pc = "grid" /\ caller = "getAllCityForecasts"
    THEN GridResponses(TrackedCities[ci]) ELSE {}

AllCitiesNext ==
    \/ \E d \in AllCitiesDates : StartAllCityForecasts(d)
    \/ \E r \in AllCitiesGridResponsesNow : AllCitiesGridResponse(r)
    \/ \E r \in HourlyResponsesNow : AllCitiesHourlyResponse(r)

AllCitiesSpec == Init /\ [][AllCitiesNext]_vars

\* the cities getDailyHigh has been called for, in the order of the calls
dailyHighCalls ==
    [i \in 1..Len(EventsOf("getDailyHigh")) |-> EventsOf("getDailyHigh")[i].arg]

\* the forecast getDailyHigh returned for the hourly answer at position i,
\* Null when it returned none or threw
returnedForecast(i) == forecastOf(hourlyOutcome(calls[i].r), scanDate, now)

\* C24: getAllCityForecasts never raises; it calls getDailyHigh once for
\* every tracked city, in the order of the table and one call at a time (the
\* requests of a call are made before the next call starts); a city whose
\* call threw or returned nothing is skipped, and the map returned holds
\* exactly the cities whose call returned a forecast, each with that
\* forecast.
C24_AllCitiesNeverRaises ==
    caller = "getAllCityForecasts" =>
        /\ status # "threw"
        /\ Len(dailyHighCalls) <= Len(TrackedCities)
        /\ dailyHighCalls = SubSeq(TrackedCities, 1, Len(dailyHighCalls))
        /\ \A i \in Positions("grid") \cup Positions("hourly") :
              \E j \in PositionsOf("getDailyHigh", calls[i].arg) :
                  /\ j < i
                  /\ \A l \in (j + 1)..(i - 1) : calls[l].k # "getDailyHigh"
        /\ pc = "done" =>
              /\ status = "returned"
              /\ dailyHighCalls = TrackedCities
              /\ DOMAIN cityForecasts =
                    {calls[i].arg : i \in {l \in Positions("hourly") : returnedForecast(l).t = "ok"}}
              /\ \A i \in Positions("hourly") :
                    returnedForecast(i).t = "ok" =>
                        cityForecasts[calls[i].arg] = returnedForecast(i).v

\* C24 witness: getAllCityForecasts has returned a map with a forecast for
\* the last city of the table, after the call for one city threw in the grid
\* lookup, the call for another threw in the hourly fetch and the call for
\* a third returned nothing.
C24_Witness ==
    /\ caller = "getAllCityForecasts"
    /\ pc = "done"
    /\ TrackedCities[Len(TrackedCities)] \in DOMAIN cityForecasts
    /\ \E i \in Positions("grid") : gridOutcome(calls[i].r).t = "throw"
    /\ \E i \in Positions("hourly") : hourlyOutcome(calls[i].r).t = "throw"
    /\ \E i \in Positions("hourly") :
          /\ hourlyOutcome(calls[i].r).t = "ok"
          /\ returnedForecast(i).t = "null"
          /\ calls[i].arg \notin DOMAIN cityForecasts

(***************************************************************************)
(* Reading a detector call                                                 *)
(***************************************************************************)
\* the edge of outcome o under forecast: fair probability minus price
edgeOf(o, forecast) == fairProbability(o.bucket, forecast) - o.price.v

\* the outcomes of market whose edge is a number
pricedOutcomes(market) == {k \in 1..Len(market.outcomes) : market.outcomes[k].price.t = "number"}

\* C25: for each outcome bucket of a market the detector emits an
\* opportunity if and only if its edge, fair probability minus market price,
\* is at least MIN_EDGE_THRESHOLD; an edge equal to the threshold is
\* emitted, and every opportunity has an edge of at least the threshold.
C25_EmittedIffEdgeAtLeastThreshold ==
    \A i \in Positions("detectOpportunities") :
        LET market   == calls[i].arg.market
            forecast == calls[i].arg.forecast
            opps     == calls[i].r
            due      == {k \in pricedOutcomes(market) :
                            edgeOf(market.outcomes[k], forecast) >= MIN_EDGE_THRESHOLD}
        IN  /\ Len(opps) = Cardinality(due)
            /\ \A k \in due :
                  \E j \in 1..Len(opps) :
                      /\ opps[j].tokenId = market.outcomes[k].tokenId
                      /\ opps[j].edge = edgeOf(market.outcomes[k], forecast)
            /\ \A j \in 1..Len(opps) : opps[j].edge >= MIN_EDGE_THRESHOLD

\* C25 witness: a detector call that emitted an opportunity whose edge
\* equals the threshold and none for an outcome whose edge is one below it.
C25_Witness ==
    \E i \in Positions("detectOpportunities") :
        LET market   == calls[i].arg.market
            forecast == calls[i].arg.forecast
            opps     == calls[i].r
        IN  /\ \E j \in 1..Len(opps) : opps[j].edge = MIN_EDGE_THRESHOLD
            /\ \E k \in pricedOutcomes(market) :
                  /\ edgeOf(market.outcomes[k], forecast) = MIN_EDGE_THRESHOLD - 1
                  /\ \A j \in 1..Len(opps) : opps[j].tokenId # market.outcomes[k].tokenId

(***************************************************************************)
(* Reading the city of a question                                          *)
(***************************************************************************)
\* the full name of the k-th city of the table, as the table writes it
fullName(k) == CITY_VARIATIONS[k].variations[1]

\* the cities of the table whose full name the question of the record holds
citiesNamed(raw) ==
    {k \in 1..Len(CITY_VARIATIONS) : includes(questionText(raw), fullName(k))}

\* C26: a question that names exactly one tracked city by its full name is
\* given the code of that city (the first match in the order NYC, LA,
\* Chicago, Miami, Dallas, Seattle wins).
C26_FullNameGivesItsCity ==
    \A i \in Positions("parseWeatherMarket") :
        (calls[i].r.t = "ok" /\ Cardinality(citiesNamed(calls[i].arg)) = 1) =>
            \A k \in citiesNamed(calls[i].arg) :
                calls[i].r.v.cityCode = CITY_VARIATIONS[k].code

(***************************************************************************)
(* Reading the listing responses of a discovery                            *)
(***************************************************************************)
\* the records of a listing response, none when it failed or cannot be
\* read as a list
recordsOf(r) ==
    IF RequestFailed(r) \/ Iterate(r.body).t = "throw" THEN <<>> ELSE Iterate(r.body).v

\* the markets parsed from the records of a listing response, up to the
\* first record that makes the parser raise
RECURSIVE parsedFrom(_)
parsedFrom(data) ==
    IF data = <<>> THEN <<>>
    ELSE Let(parseWeatherMarket(Head(data), now, tz), LAMBDA weatherMarket :
         IF weatherMarket.t = "throw" THEN <<>>
         ELSE IF weatherMarket.t = "ok" THEN <<weatherMarket.v>> \o parsedFrom(Tail(data))
         ELSE parsedFrom(Tail(data)))

\* C27: discovery never loses a market it has parsed: the list it returns
\* holds every market parsed from a successful listing response of that
\* call, even when a later record cannot be parsed or a later keyword
\* request of the fallback fails.
C27_DiscoveryKeepsParsedMarkets ==
    (pc \in {"grid", "hourly", "price", "done"} /\ status # "threw") =>
        \A i \in Positions("listing") :
            \A k \in 1..Len(parsedFrom(recordsOf(calls[i].r))) :
                \E m \in 1..Len(result.markets) :
                    result.markets[m].marketId = parsedFrom(recordsOf(calls[i].r))[k].marketId

(***************************************************************************)
(* Reading the lead time of a forecast                                     *)
(***************************************************************************)
\* the tier the lead-time table gives to a number of hours
tierOfHours(hours) ==
    IF hours <= 24 THEN "very_high"
    ELSE IF hours <= 48 THEN "high"
    ELSE IF hours <= 72 THEN "medium"
    ELSE "low"

\* C28: the confidence of a forecast is the tier the lead-time table gives
\* to the forecast's own hoursUntil field, which is never negative; two
\* forecasts with the same hoursUntil therefore have the same confidence.
C28_ConfidenceMatchesHoursUntil ==
    \A i \in Positions("dailyHigh") :
        calls[i].r.t = "ok" =>
            /\ calls[i].r.v.hoursUntil >= 0
            /\ calls[i].r.v.confidence = tierOfHours(calls[i].r.v.hoursUntil)

====
